---- MODULE Spec2Model ----
(***************************************************************************)
(* A model of the SEO blog checker: the evaluation client                  *)
(* (src/src/gemini-client.js), the content source adapter                  *)
(* (src/unnamed/part_005, WordPressClient), the content normalizer         *)
(* (src/src/content-extractor.js) and the evaluate command with its batch  *)
(* loop (src/unnamed/part_002).                                            *)
(*                                                                         *)
(* Each component has its own specification (SpecEval, SpecWP,             *)
(* SpecExtract, SpecBatch, SpecRepair, SpecRobots, SpecSeo, SpecSlugs,       *)
(* SpecLogger); the variables of the                                       *)
(* other                                                                   *)
(* components stay at their initial value.                                 *)
(*                                                                         *)
(* JavaScript values are modelled as follows.  A string is a sequence of   *)
(* one-character strings.  An Error is the sequence of the segments of its *)
(* message, outermost wrapper first: `${a}: ${b.message}` is <<a>> \o b.   *)
(* Numbers that the code multiplies by the weights 0.20 .. 0.25 are kept   *)
(* in hundredths, so that the arithmetic stays in the integers.            *)
(***************************************************************************)
EXTENDS Integers, Sequences, FiniteSets, Bags, TLC

VARIABLES
    \* ---- GeminiClient.evaluate
    gPc,        \* "idle" | "awaitPost" | "returned" | "rejected"
    gCalls,     \* number of evaluate() calls made
    gPrompt,    \* what the last call was given to build its prompt from
    gPosts,     \* number of POSTs the last call has sent to the generative endpoint
    gReply,     \* the reply the last POST settled with
    gEval,      \* the evaluation the last call returned (NoEvaluation if none)
    gErr,       \* the message of the error the last call rejected with
    gCause,     \* the message of the error thrown by the stage that failed
    \* ---- WordPressClient.getPost
    wPc,        \* "idle" | "probe" | "probeDelay" | "retryDelay" | "article" | "resolved" | "rejected"
    wId,        \* the identifier's type: "slug" | "id" | "other"
    wRetry0,    \* retryCount of the top-level call
    wRetry,     \* retryCount of the running getPost frame
    wTcRetry,   \* retryCount of the running testConnection frame
    wAttempts,  \* getPost frames started (fetch attempts)
    wProbes,    \* GET /wp-json/ requests sent
    wWaits,     \* retryDelay waits of getPost completed
    wArticle,   \* article requests sent
    wProbeOk,   \* a probe request succeeded
    wProbeErr,  \* message of the error the last probe request failed with
    wReply,     \* what the article request settled with
    wErr,       \* message of the error getPost rejected with
    \* ---- ContentExtractor.extract
    xPc,        \* "idle" | "returned" | "threw"
    xRaw,       \* the raw record extract() was given
    xConfig,    \* the extraction config of the extractor
    xShape,     \* the projection that ran: "cms" | "scrape" | "generic"
    xOut,       \* the record extract() returned: field -> value, Absent if no such key
    \* ---- the evaluate command
    bPc,        \* "start" | "chunk" | "done" | "exit1"
    bOption,    \* the --batch-size option as given
    bIds,       \* postIdentifiers: the values of the identifiers, in input order
    bBatchSize, \* batchSize
    bI,         \* i, the loop variable
    bChunks,    \* chunks started
    bPipe,      \* position -> the processSinglePost call of that identifier
    bResults,   \* results
    bErrors,    \* errors
    bCause,     \* what made the setup fail, "" if it did not
    bExit,      \* the exit status of the process, Running until it ends
    bFile,      \* reports/seo_analysis_summary.csv: what has been written to it
    \* ---- parseEvaluationResponse on a model text with string literals
    rPc,        \* "idle" | "parsed" | "threw"
    rKind,      \* the text is {"k":[literals]} ("array") or {"k":literal} ("member")
    rItems,     \* the contents of the string literals, as written between the quotes
    rSeps,      \* what the text has between consecutive literals
    rText,      \* the model text
    rValue,     \* what JSON.parse made of the repaired text
    \* ---- ContentExtractor.buildRobotsDirective
    dPc,        \* "idle" | "returned"
    dMeta,      \* the meta argument
    dYoast,     \* the yoastHeadJson argument
    dOut,       \* the directives of the returned string, in order
    \* ---- the SEO and social fields of ContentExtractor.extractWordPressContent
    sPc,        \* "idle" | "returned"
    sYoast,     \* wordpressData.yoast_head_json
    sMeta,      \* wordpressData.meta
    sLink,      \* wordpressData.link
    sOut,       \* the SEO and social fields of the projected record
    \* ---- loadSlugsFromFile
    fPc,        \* "idle" | "returned" | "threw"
    fContent,   \* the content of the file
    fOut,       \* the identifiers returned
    \* ---- ErrorLogger.logError
    lCalls,     \* the logError calls: where each is and the logs array it holds
    lFile,      \* the entries of error_log.json
    lDaily      \* the lines of the daily log file

gVars == <<gPc, gCalls, gPrompt, gPosts, gReply, gEval, gErr, gCause>>

wVars == <<wPc, wId, wRetry0, wRetry, wTcRetry, wAttempts, wProbes, wWaits, wArticle,
           wProbeOk, wProbeErr, wReply, wErr>>

xVars == <<xPc, xRaw, xConfig, xShape, xOut>>

bVars == <<bPc, bOption, bIds, bBatchSize, bI, bChunks, bPipe, bResults, bErrors, bCause, bExit,
          bFile>>

rVars == <<rPc, rKind, rItems, rSeps, rText, rValue>>

dVars == <<dPc, dMeta, dYoast, dOut>>

sVars == <<sPc, sYoast, sMeta, sLink, sOut>>

fVars == <<fPc, fContent, fOut>>

lVars == <<lCalls, lFile, lDaily>>

vars == <<gVars, wVars, xVars, bVars, rVars, dVars, sVars, fVars, lVars>>

\* what an action of one component leaves alone: the other components
notG == <<wVars, xVars, bVars, rVars, dVars, sVars, fVars, lVars>>
notW == <<gVars, xVars, bVars, rVars, dVars, sVars, fVars, lVars>>
notX == <<gVars, wVars, bVars, rVars, dVars, sVars, fVars, lVars>>
notB == <<gVars, wVars, xVars, rVars, dVars, sVars, fVars, lVars>>
notR == <<gVars, wVars, xVars, bVars, dVars, sVars, fVars, lVars>>
notD == <<gVars, wVars, xVars, bVars, rVars, sVars, fVars, lVars>>
notS == <<gVars, wVars, xVars, bVars, rVars, dVars, fVars, lVars>>
notF == <<gVars, wVars, xVars, bVars, rVars, dVars, sVars, lVars>>
notL == <<gVars, wVars, xVars, bVars, rVars, dVars, sVars, fVars>>

-----------------------------------------------------------------------------
(***************************************************************************)
(* Strings                                                                 *)
(***************************************************************************)

\* \s of a JavaScript regular expression, restricted to the characters used
IsWs(c) == c \in {" ", "\n", "\t", "\r"}

\* [\x00-\x1F\x7F-\x9F], restricted to the characters used
IsCtl(c) == c \in {"\n", "\t", "\r"}

\* a line terminator: what `.` does not match
IsNl(c) == c \in {"\n", "\r"}

\* String.prototype.includes for a single character
Includes(s, c) == \E i \in 1..Len(s) : s[i] = c

\* s.substring from index p (1-based) to the end
From(s, p) == IF p > Len(s) THEN <<>> ELSE SubSeq(s, p, Len(s))

\* String.prototype.trim
RECURSIVE TrimLeft(_)
TrimLeft(s) == IF s # <<>> /\ IsWs(Head(s)) THEN TrimLeft(Tail(s)) ELSE s

RECURSIVE TrimRight(_)
TrimRight(s) ==
    IF s # <<>> /\ IsWs(s[Len(s)]) THEN TrimRight(SubSeq(s, 1, Len(s) - 1)) ELSE s

Trim(s) == TrimRight(TrimLeft(s))

\* index of the first non-whitespace character at or after p (Len(s)+1 if none)
RECURSIVE SkipWs(_, _)
SkipWs(s, p) == IF p <= Len(s) /\ IsWs(s[p]) THEN SkipWs(s, p + 1) ELSE p

\* text.match(/\{[\s\S]*\}/): from the first "{" to the last "}" after it
FirstIndex(s, c) == CHOOSE i \in 1..Len(s) : s[i] = c /\ \A j \in 1..(i - 1) : s[j] # c
LastIndex(s, c) == CHOOSE i \in 1..Len(s) : s[i] = c /\ \A j \in (i + 1)..Len(s) : s[j] # c

HasJsonMatch(s) ==
    /\ Includes(s, "{")
    /\ Includes(s, "}")
    /\ FirstIndex(s, "{") < LastIndex(s, "}")

JsonMatch(s) == SubSeq(s, FirstIndex(s, "{"), LastIndex(s, "}"))

-----------------------------------------------------------------------------
(***************************************************************************)
(* parseEvaluationResponse: the cleanup chain (gemini-client.js 358-373)   *)
(***************************************************************************)

\* index of the "*" of the first "*/" at or after p (0 if none)
RECURSIVE CommentClose(_, _)
CommentClose(s, p) ==
    IF p + 1 > Len(s) THEN 0
    ELSE IF s[p] = "*" /\ s[p + 1] = "/" THEN p
    ELSE CommentClose(s, p + 1)

\* index of the first line terminator at or after p (Len(s)+1 if none)
RECURSIVE LineEnd(_, _)
LineEnd(s, p) == IF p <= Len(s) /\ ~IsNl(s[p]) THEN LineEnd(s, p + 1) ELSE p

\* .replace(/\/\*[\s\S]*?\*\/|\/\/.*/g, '')
RECURSIVE StripComments(_)
StripComments(s) ==
    IF s = <<>> THEN <<>>
    ELSE IF Len(s) >= 2 /\ s[1] = "/" /\ s[2] = "*" /\ CommentClose(s, 3) # 0
        THEN StripComments(From(s, CommentClose(s, 3) + 2))
    ELSE IF Len(s) >= 2 /\ s[1] = "/" /\ s[2] = "/"
        THEN StripComments(From(s, LineEnd(s, 3)))
    ELSE <<Head(s)>> \o StripComments(Tail(s))

\* .replace(/[\x00-\x1F\x7F-\x9F]/g, '')
StripControl(s) == SelectSeq(s, LAMBDA c : ~IsCtl(c))

\* .replace(/a\s*b/g, rep), and with needNl .replace(/a\s*\n\s*b/g, rep):
\* an a, then whitespace only (holding a newline if needNl), then a b
RECURSIVE ReplaceGap(_, _, _, _, _)
ReplaceGap(s, a, b, needNl, rep) ==
    IF s = <<>> THEN <<>>
    ELSE LET q == SkipWs(s, 2) IN
        IF /\ s[1] = a
           /\ q <= Len(s)
           /\ s[q] = b
           /\ (needNl => \E k \in 2..(q - 1) : s[k] = "\n")
        THEN rep \o ReplaceGap(From(s, q + 1), a, b, needNl, rep)
        ELSE <<s[1]>> \o ReplaceGap(Tail(s), a, b, needNl, rep)

\* .replace(/\s+/g, ' ')
RECURSIVE CollapseWs(_)
CollapseWs(s) ==
    IF s = <<>> THEN <<>>
    ELSE IF IsWs(s[1]) THEN <<" ">> \o CollapseWs(From(s, SkipWs(s, 1)))
    ELSE <<s[1]>> \o CollapseWs(Tail(s))

\* the whole chain of lines 359-373, in the order of the code
BasicCleanup(s) ==
    LET c1 == StripComments(s)
        c2 == StripControl(c1)
        c3 == ReplaceGap(c2, "\"", "\"", TRUE, <<"\"", ",", " ", "\"">>)
        c4 == ReplaceGap(c3, "\"", "]", FALSE, <<"\"", "]">>)
        c5 == ReplaceGap(c4, "[", "\"", FALSE, <<"[", "\"">>)
        c6 == ReplaceGap(c5, "\"", "\"", FALSE, <<"\"", ",", " ", "\"">>)
        c7 == ReplaceGap(c6, "}", "{", FALSE, <<"}", ",", " ", "{">>)
    IN  CollapseWs(c7)

(***************************************************************************)
(* parseEvaluationResponse: the quote/bracket scan (lines 375-408)         *)
(***************************************************************************)
RECURSIVE ArrayScan(_, _, _, _, _, _, _)
ArrayScan(s, i, depth, inString, inArray, lastChar, result) ==
    IF i > Len(s) THEN result
    ELSE
        LET char == s[i]
            inString2 == IF char = "\"" /\ lastChar # "\\" THEN ~inString ELSE inString
            depth2 == IF inString2 THEN depth
                      ELSE IF char = "[" THEN depth + 1
                      ELSE IF char = "]" THEN depth - 1
                      ELSE depth
            inArray2 == IF inString2 THEN inArray
                        ELSE IF char = "[" THEN TRUE
                        ELSE IF char = "]" THEN depth2 > 0
                        ELSE inArray
            comma == /\ ~inString2
                     /\ char # "["
                     /\ char # "]"
                     /\ inArray
                     /\ char = "\""
                     /\ i > 1
                     /\ s[i - 1] = "\""
            result2 == IF comma THEN result \o <<",", char>> ELSE Append(result, char)
        IN  ArrayScan(s, i + 1, depth2, inString2, inArray2, char, result2)

\* the repaired string handed to JSON.parse (lines 350-408)
RepairedJson(text) ==
    LET jsonStr == IF HasJsonMatch(text) THEN JsonMatch(text) ELSE Trim(text)
    IN  ArrayScan(BasicCleanup(jsonStr), 1, 0, FALSE, FALSE, "", <<>>)

(***************************************************************************)
(* JSON.parse, for the JSON made of objects, arrays and strings            *)
(***************************************************************************)
JNone == [t |-> "none", s |-> <<>>, items |-> <<>>, keys |-> <<>>]

JStr(x) == [t |-> "string", s |-> x, items |-> <<>>, keys |-> <<>>]

JArr(xs) == [t |-> "array", s |-> <<>>, items |-> xs, keys |-> <<>>]

JObj(ks, vs) == [t |-> "object", s |-> <<>>, items |-> vs, keys |-> ks]

PFail == [ok |-> FALSE, pos |-> 0, val |-> JNone]

POk(p, v) == [ok |-> TRUE, pos |-> p, val |-> v]

\* the characters of a string literal after its opening quote
RECURSIVE ParseStringBody(_, _, _)
ParseStringBody(s, p, acc) ==
    IF p > Len(s) THEN PFail
    ELSE IF s[p] = "\"" THEN POk(p + 1, JStr(acc))
    ELSE IF s[p] = "\\" THEN
        IF p + 1 <= Len(s) /\ s[p + 1] \in {"\"", "\\", "/"}
        THEN ParseStringBody(s, p + 2, Append(acc, s[p + 1]))
        ELSE PFail
    ELSE IF IsCtl(s[p]) THEN PFail
    ELSE ParseStringBody(s, p + 1, Append(acc, s[p]))

RECURSIVE ParseValue(_, _)
RECURSIVE ParseItems(_, _, _)
RECURSIVE ParseMembers(_, _, _, _)

ParseValue(s, p0) ==
    LET p == SkipWs(s, p0) IN
    IF p > Len(s) THEN PFail
    ELSE IF s[p] = "\"" THEN ParseStringBody(s, p + 1, <<>>)
    ELSE IF s[p] = "[" THEN
        LET q == SkipWs(s, p + 1) IN
        IF q <= Len(s) /\ s[q] = "]" THEN POk(q + 1, JArr(<<>>))
        ELSE ParseItems(s, p + 1, <<>>)
    ELSE IF s[p] = "{" THEN
        LET q == SkipWs(s, p + 1) IN
        IF q <= Len(s) /\ s[q] = "}" THEN POk(q + 1, JObj(<<>>, <<>>))
        ELSE ParseMembers(s, p + 1, <<>>, <<>>)
    ELSE PFail

ParseItems(s, p, acc) ==
    LET r == ParseValue(s, p) IN
    IF ~r.ok THEN PFail
    ELSE LET q == SkipWs(s, r.pos) IN
        IF q > Len(s) THEN PFail
        ELSE IF s[q] = "]" THEN POk(q + 1, JArr(Append(acc, r.val)))
        ELSE IF s[q] = "," THEN ParseItems(s, q + 1, Append(acc, r.val))
        ELSE PFail

ParseMembers(s, p0, ks, vs) ==
    LET p == SkipWs(s, p0) IN
    IF p > Len(s) \/ s[p] # "\"" THEN PFail
    ELSE LET k == ParseStringBody(s, p + 1, <<>>) IN
        IF ~k.ok THEN PFail
        ELSE LET c == SkipWs(s, k.pos) IN
            IF c > Len(s) \/ s[c] # ":" THEN PFail
            ELSE LET r == ParseValue(s, c + 1) IN
                IF ~r.ok THEN PFail
                ELSE LET q == SkipWs(s, r.pos) IN
                    IF q > Len(s) THEN PFail
                    ELSE IF s[q] = "}"
                        THEN POk(q + 1, JObj(Append(ks, k.val.s), Append(vs, r.val)))
                    ELSE IF s[q] = ","
                        THEN ParseMembers(s, q + 1, Append(ks, k.val.s), Append(vs, r.val))
                    ELSE PFail

JSONparse(s) ==
    LET r == ParseValue(s, 1) IN
    IF r.ok /\ SkipWs(s, r.pos) > Len(s) THEN r ELSE PFail

-----------------------------------------------------------------------------
(***************************************************************************)
(* GeminiClient: replies, evaluations, results                             *)
(***************************************************************************)

\* longest model text enumerated character by character
MaxTextLen == 5

\* evaluate() calls per behaviour
MaxCalls == 2

\* the characters of the enumerated model texts
TextChars == {"{", "}", "[", "]", "\""}

Texts == UNION {[1..n -> TextChars] : n \in 0..MaxTextLen}

\* the six criteria, in the order of the `weights` literal (lines 433-440)
Criteria ==
    <<"eeat_score", "technical_score", "relevance_score",
      "text_quality_score", "ai_optimization_score", "freshness_score">>

CriteriaSet == {Criteria[i] : i \in 1..Len(Criteria)}

\* the weights 0.20, 0.10, 0.20, 0.10, 0.25, 0.15 in hundredths
weights ==
    [eeat_score |-> 20, technical_score |-> 10, relevance_score |-> 20,
     text_quality_score |-> 10, ai_optimization_score |-> 25, freshness_score |-> 15]

\* evaluation[key]?.score: undefined (no criterion object, or no score in it),
\* null, or a number
Undefined == [tag |-> "undefined", n |-> 0]

Null == [tag |-> "null", n |-> 0]

Num(n) == [tag |-> "number", n |-> n]

ScoreVals == {0, 70, 130}

CritVals == {Undefined, Null} \cup {Num(n) : n \in ScoreVals}

\* the overall_score the model itself wrote (the prompt asks for null)
OverallVals == {Null, Num(55)}

\* the priority member of the model's object
PriorityVals == {"undefined", "low"}

\* the optimization_recommendation member of the upstream JSON (the prompt
\* asks for a free text, lines 264-266)
RecommendationVals == {"undefined", "Optimize"}

\* a parsed JSON object with the members the client reads
MkMembers(crit, overall, priority, recommendation) ==
    [crit |-> crit, overall |-> overall, priority |-> priority, recommendation |-> recommendation]

NoMembers == MkMembers([k \in CriteriaSet |-> Undefined], Undefined, "undefined", "undefined")

\* what the POST settles with.  net: "2xx", "http" (an error status) or an
\* axios error code.  body (2xx only): "noCandidates" (data without
\* candidates[0]), "noParts" (a candidate without content.parts[0].text),
\* "text" (the model text is `text`), "object" (the model text holds a JSON
\* object that the repair leaves parsable, with members `obj`).
MkReply(net, status, upstream, body, text, obj) ==
    [net |-> net, status |-> status, upstream |-> upstream, body |-> body, text |-> text, obj |-> obj]

NoReply == MkReply("none", 0, FALSE, "none", <<>>, NoMembers)

NetFailures == {MkReply(c, 0, FALSE, "none", <<>>, NoMembers) : c \in {"ECONNREFUSED", "ENOTFOUND", "ETIMEDOUT"}}

HttpFailures ==
    {MkReply("http", st, up, "none", <<>>, NoMembers) : st \in {400, 404, 429, 500}, up \in BOOLEAN}

MalformedReplies == {MkReply("2xx", 200, FALSE, b, <<>>, NoMembers) : b \in {"noCandidates", "noParts"}}

TextReply(t) == MkReply("2xx", 200, FALSE, "text", t, NoMembers)

ObjectReply(crit, overall, priority, recommendation) ==
    MkReply("2xx", 200, FALSE, "object", <<>>, MkMembers(crit, overall, priority, recommendation))

\* the value parseEvaluationResponse works on after JSON.parse
MkEvaluation(kind, crit, overall_score, priority, optimization_recommendation) ==
    [kind |-> kind, crit |-> crit, overall_score |-> overall_score, priority |-> priority,
     optimization_recommendation |-> optimization_recommendation]

NoEvaluation == MkEvaluation("none", NoMembers.crit, Undefined, "undefined", "undefined")

\* the outcome of a call: a value, or a thrown Error with its message and the
\* message of the error it was made from (cause)
Return(v) == [ok |-> TRUE, value |-> v, error |-> <<>>, cause |-> <<>>]

Throw(msg) == [ok |-> FALSE, value |-> NoEvaluation, error |-> msg, cause |-> msg]

\* catch (e) { throw new Error(`${prefix}: ${e.message}`) }
Rethrow(prefix, r) == [r EXCEPT !.error = <<prefix>> \o r.error]

-----------------------------------------------------------------------------
(***************************************************************************)
(* GeminiClient.sendRequest (lines 271-336), given what the POST settles   *)
(* with                                                                    *)
(***************************************************************************)
sendRequest(reply) ==
    IF reply.net = "2xx" THEN
        IF reply.body = "noCandidates"
        THEN Throw(<<"Invalid response format from Gemini API">>)
        ELSE Return(reply)
    ELSE IF reply.net = "http" THEN
        IF reply.status = 429
        THEN Throw(<<"Gemini API rate limit exceeded. Please try again later.">>)
        ELSE IF reply.status = 400
        THEN Throw(<<"Gemini API request failed",
                     IF reply.upstream THEN "upstream error message" ELSE "Invalid request">>)
        ELSE IF reply.status = 404
        THEN Throw(<<"Gemini API endpoint not found. Please check the API key and endpoint URL.">>)
        ELSE Throw(<<"Gemini API error (status)", "statusText">>)
    ELSE IF reply.net = "ECONNREFUSED"
    THEN Throw(<<"Cannot connect to Gemini API. Please check your internet connection.">>)
    ELSE IF reply.net = "ENOTFOUND"
    THEN Throw(<<"Gemini API host not found. Please check the API endpoint URL.">>)
    ELSE Throw(<<"axios error", reply.net>>)

(***************************************************************************)
(* GeminiClient.parseEvaluationResponse (lines 338-470)                    *)
(***************************************************************************)

\* lines 412-430: JSON.parse succeeded, or threw a SyntaxError.  No key
\* written with TextChars spells a member the client reads, so a value
\* parsed from an enumerated text has none of them.
AfterJsonParse(r) ==
    IF r.ok
    THEN Return(MkEvaluation(r.val.t, NoMembers.crit, Undefined, "undefined", "undefined"))
    ELSE [Throw(<<"SyntaxError">>) EXCEPT !.error = <<"JSON parsing failed", "SyntaxError">>]

\* lines 340-430: the value JSON.parse yields, or the error thrown before
ParsedValue(response) ==
    IF response.body = "noParts"
    THEN Throw(<<"TypeError: Cannot read properties of undefined">>)
    ELSE IF response.body = "object"
    THEN Return(MkEvaluation("object", response.obj.crit, response.obj.overall,
                             response.obj.priority, response.obj.recommendation))
    ELSE IF ~Includes(response.text, "{")
    THEN Throw(<<"Response does not contain JSON object">>)
    ELSE AfterJsonParse(JSONparse(RepairedJson(response.text)))

\* evaluation[key]?.score || 0
ScoreOrZero(v) == IF v.tag = "number" THEN v.n ELSE 0

\* Object.entries(weights).reduce(..., 0), in hundredths (lines 442-445)
RECURSIVE calculatedScore(_, _, _)
calculatedScore(keys, crit, sum) ==
    IF keys = <<>> THEN sum
    ELSE calculatedScore(Tail(keys), crit, sum + ScoreOrZero(crit[Head(keys)]) * weights[Head(keys)])

\* Math.round of a number given in hundredths
MathRound(h) == (h + 50) \div 100

\* lines 459-464
PriorityFor(priority, overall) ==
    IF priority # "undefined" THEN priority
    ELSE IF overall < 60 THEN "high"
    ELSE IF overall < 75 THEN "medium"
    ELSE "low"

\* a variant that keeps a numeric overall_score of the upstream JSON
KeepCarriedOverall(ev, overall) ==
    Return(MkEvaluation(ev.kind, ev.crit,
                        IF ev.overall_score.tag = "number" THEN ev.overall_score
                        ELSE Num(overall),
                        PriorityFor(ev.priority, overall),
                        ev.optimization_recommendation))

\* lines 447-466, with the rounded score
WithOverall(ev, overall) ==
    Return(MkEvaluation(ev.kind, ev.crit, Num(overall), PriorityFor(ev.priority, overall),
                        ev.optimization_recommendation))

\* lines 432-466 on the parsed value.  The file is an ES module (strict
\* mode): assigning a property to a string primitive throws a TypeError.
ScoreEvaluation(ev) ==
    IF ev.kind = "string"
    THEN Throw(<<"TypeError: Cannot create property 'overall_score' on string">>)
    ELSE WithOverall(ev, MathRound(calculatedScore(Criteria, ev.crit, 0)))

\* the statements after JSON.parse run only if nothing was thrown before
ThenScore(parsed) == IF parsed.ok THEN ScoreEvaluation(parsed.value) ELSE parsed

\* the outer catch of parseEvaluationResponse (lines 467-469)
ParseCatch(r) == IF r.ok THEN r ELSE Rethrow("Failed to parse Gemini response", r)

parseEvaluationResponse(response) == ParseCatch(ThenScore(ParsedValue(response)))

(***************************************************************************)
(* GeminiClient.evaluate (lines 20-61), given what the POST settles with   *)
(***************************************************************************)

\* line 45 runs only if sendRequest returned
ThenParse(sent) == IF sent.ok THEN parseEvaluationResponse(sent.value) ELSE sent

\* the catch of evaluate (lines 53-60)
EvaluateCatch(r) ==
    IF r.ok THEN r
    ELSE [Rethrow("Gemini AI evaluation failed", r) EXCEPT !.error = @ \o <<"stack">>]

evaluate(reply) == EvaluateCatch(ThenParse(sendRequest(reply)))

\* evaluate() is called: the prompt is built and the one POST of sendRequest
\* is sent (lines 32-35, 293-296)
\* what buildEvaluationPrompt (lines 63-269) is given: content and a
\* configuration it can render, a criterion of the configuration whose
\* body is null (`- eeat_score:` passes validateEvaluationConfig), or
\* keywords that are a string instead of an array
PromptInputs == {"ok", "nullCriterion", "keywordsString"}

buildEvaluationPrompt(input) ==
    IF input = "nullCriterion"
    THEN Throw(<<"TypeError: Cannot read properties of null (reading 'baseline_expectations')">>)
    ELSE IF input = "keywordsString"
    THEN Throw(<<"TypeError: extractedContent.keywords.join is not a function">>)
    ELSE Return(NoEvaluation)

\* a variant that asks again once when the endpoint answers 429
ResentOn429(reply) == IF reply.net = "http" /\ reply.status = 429 THEN 1 ELSE 0

\* the requests sendRequest makes after the first one settled with
\* `reply`: its catch (lines 300-335) throws for every status and code
Resent(reply) == 0

\* evaluate(extractedContent, evaluationConfig) is called: the prompt is
\* built and, unless that throws, the POST is sent (lines 20-35, 271-285)
Called(input, built) ==
    /\ gCalls' = gCalls + 1
    /\ gPrompt' = input
    /\ gReply' = NoReply
    /\ gPc' = IF built.ok THEN "awaitPost" ELSE "rejected"
    /\ gPosts' = IF built.ok THEN 1 ELSE 0
    /\ gEval' = NoEvaluation
    /\ gErr' = IF built.ok THEN <<>> ELSE EvaluateCatch(built).error
    /\ gCause' = IF built.ok THEN <<>> ELSE built.cause
    /\ UNCHANGED notG

EvaluateCall ==
    /\ gPc \in {"idle", "returned", "rejected"}
    /\ gCalls < MaxCalls
    /\ \E input \in PromptInputs : Called(input, buildEvaluationPrompt(input))

\* the POST settles with `reply`; the rest of sendRequest and of evaluate
\* runs synchronously
Settled(reply, r) ==
    /\ gReply' = reply
    /\ gPc' = IF r.ok THEN "returned" ELSE "rejected"
    /\ gEval' = r.value
    /\ gErr' = r.error
    /\ gCause' = r.cause
    /\ gPosts' = gPosts + Resent(reply)
    /\ UNCHANGED <<gCalls, gPrompt>>
    /\ UNCHANGED notG

Settle(reply) == Settled(reply, evaluate(reply))

\* the transport fails, or the 2xx body has no candidate or no text
PostFails ==
    /\ gPc = "awaitPost"
    /\ \E reply \in NetFailures \cup HttpFailures \cup MalformedReplies : Settle(reply)

\* the model answers with a short text, enumerated character by character
PostReturnsText ==
    /\ gPc = "awaitPost"
    /\ \E t \in Texts : Settle(TextReply(t))

\* the model answers with a JSON object
PostReturnsObject ==
    /\ gPc = "awaitPost"
    /\ \E crit \in [CriteriaSet -> CritVals], overall \in OverallVals, priority \in PriorityVals,
          recommendation \in RecommendationVals :
        Settle(ObjectReply(crit, overall, priority, recommendation))

InitEval ==
    /\ gPc = "idle"
    /\ gCalls = 0
    /\ gPrompt = "ok"
    /\ gPosts = 0
    /\ gReply = NoReply
    /\ gEval = NoEvaluation
    /\ gErr = <<>>
    /\ gCause = <<>>

NextEval == EvaluateCall \/ PostFails \/ PostReturnsText \/ PostReturnsObject


-----------------------------------------------------------------------------
(***************************************************************************)
(* WordPressClient.getPost and testConnection (src/unnamed/part_005)       *)
(***************************************************************************)

\* largest retryCount a top-level getPost call is given
MaxRetry == 2

\* the default retryCount of testConnection (line 199)
TestConnectionRetries == 3

\* the messages an axios error of the probe request can carry
ProbeErrors == {"connect ECONNREFUSED", "Request failed with status code 503"}

\* what the article request settles with: a 2xx body, an error status, or
\* an axios error code without a response
MkWpReply(net, status, data) == [net |-> net, status |-> status, data |-> data]

NoWpReply == MkWpReply("none", 0, "none")

WpReplies ==
    {MkWpReply("2xx", 200, d) : d \in {"post", "posts", "emptyArray", "noData"}}
    \cup {MkWpReply("http", st, "none") : st \in {403, 404, 500, 502, 503}}
    \cup {MkWpReply(c, 0, "none") : c \in {"ECONNREFUSED", "ENOTFOUND", "ECONNABORTED"}}

\* the catch of getPost (lines 83-123) for an error that carries a response
\* or an axios code
ArticleError(reply) ==
    IF reply.net = "http" THEN
        IF reply.status = 404 THEN <<"Post not found", "identifier.value">>
        ELSE IF reply.status = 502 THEN <<"WordPress API Gateway error (502)">>
        ELSE <<"WordPress API error (status)", "statusText", "Response data">>
    ELSE IF reply.net = "ECONNREFUSED" THEN <<"Cannot connect to WordPress site">>
    ELSE IF reply.net = "ENOTFOUND" THEN <<"WordPress site not found">>
    ELSE <<"WordPress API error", reply.net, "Stack trace">>

\* the catch of getPost for an Error thrown inside the try block itself: it
\* has neither response nor code (lines 121-122)
PlainError(message) == <<"WordPress API error">> \o message \o <<"Stack trace">>

\* lines 70-81: the body of a 2xx answer.  A slug query answers with an
\* array; an id query with the post object.
SlugNotFound(idType, reply) ==
    idType = "slug" /\ reply.data \in {"emptyArray", "noData"}

\* the error getPost rejects with once the article request settled (<<>> if
\* it resolves)
ArticleOutcome(idType, reply) ==
    IF reply.net # "2xx" THEN ArticleError(reply)
    ELSE IF SlugNotFound(idType, reply) THEN PlainError(<<"Post with slug not found">>)
    ELSE <<>>

\* a variant that re-runs once more than retryCount allows
RetryOnceMore(retryCount) == retryCount >= 0

\* testConnection threw: lines 51-59 of the running getPost frame
RetryAfterProbe(retryCount) == retryCount > 0

\* getPost(identifier, retryCount) is called (lines 30-49): an identifier
\* of unknown type throws at line 39, otherwise testConnection sends the
\* first probe
GetPostCall ==
    /\ wPc = "idle"
    /\ \E idType \in {"slug", "id", "other"}, retryCount \in 0..MaxRetry :
        /\ wId' = idType
        /\ wRetry0' = retryCount
        /\ wRetry' = retryCount
        /\ wAttempts' = 1
        /\ IF idType = "other"
           THEN /\ wPc' = "rejected"
                /\ wErr' = PlainError(<<"Invalid identifier type">>)
                /\ UNCHANGED <<wProbes, wTcRetry>>
           ELSE /\ wPc' = "probe"
                /\ wProbes' = wProbes + 1
                /\ wTcRetry' = TestConnectionRetries
                /\ UNCHANGED wErr
    /\ UNCHANGED <<wWaits, wArticle, wProbeOk, wProbeErr, wReply>>
    /\ UNCHANGED notW

\* the probe answers 2xx: testConnection returns and the article request
\* is sent (lines 50, 61-68)
ProbeSucceeds ==
    /\ wPc = "probe"
    /\ wProbeOk' = TRUE
    /\ wArticle' = wArticle + 1
    /\ wPc' = "article"
    /\ UNCHANGED <<wId, wRetry0, wRetry, wTcRetry, wAttempts, wProbes, wWaits, wProbeErr,
                   wReply, wErr>>
    /\ UNCHANGED notW

\* the probe fails (lines 210-227): testConnection waits and probes again
\* while it has retries left; then it throws, and getPost waits for a
\* re-run while it has retries left (lines 51-59); then the outer catch
\* rejects (lines 83-123)
ProbeFails ==
    /\ wPc = "probe"
    /\ \E e \in ProbeErrors :
        /\ wProbeErr' = e
        /\ IF wTcRetry > 0 THEN
                /\ wPc' = "probeDelay"
                /\ UNCHANGED wErr
           ELSE IF RetryAfterProbe(wRetry) THEN
                /\ wPc' = "retryDelay"
                /\ UNCHANGED wErr
           ELSE /\ wPc' = "rejected"
                /\ wErr' = PlainError(<<"WordPress API connection test failed", e>>)
    /\ UNCHANGED <<wId, wRetry0, wRetry, wTcRetry, wAttempts, wProbes, wWaits, wArticle,
                   wProbeOk, wReply>>
    /\ UNCHANGED notW

\* the wait of testConnection ends: testConnection(retryCount - 1) probes
\* again (lines 222-223)
ProbeDelayEnds ==
    /\ wPc = "probeDelay"
    /\ wTcRetry' = wTcRetry - 1
    /\ wProbes' = wProbes + 1
    /\ wPc' = "probe"
    /\ UNCHANGED <<wId, wRetry0, wRetry, wAttempts, wWaits, wArticle, wProbeOk, wProbeErr,
                   wReply, wErr>>
    /\ UNCHANGED notW

\* the wait of getPost ends: getPost(identifier, retryCount - 1) runs the
\* whole fetch again (lines 55-56)
RetryDelayEnds ==
    /\ wPc = "retryDelay"
    /\ wWaits' = wWaits + 1
    /\ wRetry' = wRetry - 1
    /\ wAttempts' = wAttempts + 1
    /\ wTcRetry' = TestConnectionRetries
    /\ wProbes' = wProbes + 1
    /\ wPc' = "probe"
    /\ UNCHANGED <<wId, wRetry0, wArticle, wProbeOk, wProbeErr, wReply, wErr>>
    /\ UNCHANGED notW

\* the article request settles (lines 62-123)
ArticleSettles ==
    /\ wPc = "article"
    /\ \E reply \in WpReplies :
        /\ (reply.data = "post") = (wId = "id" /\ reply.net = "2xx")
        /\ wReply' = reply
        /\ wErr' = ArticleOutcome(wId, reply)
        /\ wPc' = IF ArticleOutcome(wId, reply) = <<>> THEN "resolved" ELSE "rejected"
    /\ UNCHANGED <<wId, wRetry0, wRetry, wTcRetry, wAttempts, wProbes, wWaits, wArticle,
                   wProbeOk, wProbeErr>>
    /\ UNCHANGED notW

InitWP ==
    /\ wPc = "idle"
    /\ wId = "slug"
    /\ wRetry0 = 0
    /\ wRetry = 0
    /\ wTcRetry = 0
    /\ wAttempts = 0
    /\ wProbes = 0
    /\ wWaits = 0
    /\ wArticle = 0
    /\ wProbeOk = FALSE
    /\ wProbeErr = ""
    /\ wReply = NoWpReply
    /\ wErr = <<>>

NextWP ==
    \/ GetPostCall
    \/ ProbeSucceeds
    \/ ProbeFails
    \/ ProbeDelayEnds
    \/ RetryDelayEnds
    \/ ArticleSettles

-----------------------------------------------------------------------------
(***************************************************************************)
(* ContentExtractor.extract (src/src/content-extractor.js)                 *)
(*                                                                         *)
(* A JavaScript value is a tag: Undef and JsNull, a string by its text, an *)
(* object by the members it has ("{rendered,text}").                       *)
(***************************************************************************)

Undef == "<undefined>"
JsNull == "<null>"
\* no such key in the object
Absent == "<absent>"
\* the expression threw a TypeError
TypeError == "<TypeError>"

Truthy(v) == v \notin {Undef, JsNull, "", "0"}

IsObject(v) == v \in {"{}", "{rendered}", "{text}", "{rendered,text}"}

\* a || b
Or(a, b) == IF Truthy(a) THEN a ELSE b

\* v?.rendered and v?.text
Rendered(v) == IF v \in {"{rendered}", "{rendered,text}"} THEN "<p>rendered</p>" ELSE Undef
TextOf(v) == IF v \in {"{text}", "{rendered,text}"} THEN "scraped text" ELSE Undef

\* lines 232-235: html.replace exists on strings only
stripHtml(html) ==
    IF ~Truthy(html) THEN ""
    ELSE IF IsObject(html) THEN TypeError
    ELSE IF html = "<p>rendered</p>" THEN "rendered"
    ELSE IF html = "<p>html</p>" THEN "html"
    ELSE html

\* lines 242-245: content.split exists on strings only
getWordCount(content) ==
    IF ~Truthy(content) THEN "0"
    ELSE IF IsObject(content) THEN TypeError
    ELSE "1"

FieldSeq == <<"post_id", "slug", "url", "title", "content", "meta_description", "headers",
              "word_count", "images">>

Fields == {FieldSeq[i] : i \in 1..Len(FieldSeq)}

essentialFields == <<"post_id", "slug", "url", "title", "content">>

Essential == {essentialFields[i] : i \in 1..Len(essentialFields)}

RawRecords ==
    [yoast_head_json : {Undef, JsNull, "{}"},
     meta : {Undef, "{}"},
     id : {Undef, "0", "42"},
     slug : {Undef, "", "my-post"},
     link : {Undef, "https://site/my-post"},
     url : {Undef, "https://other/page"},
     title : {Undef, "Title", "{rendered}"},
     content : {Undef, "<p>html</p>", "{rendered}", "{text}", "{rendered,text}"}]

NoRaw == [yoast_head_json |-> Undef, meta |-> Undef, id |-> Undef, slug |-> Undef,
          link |-> Undef, url |-> Undef, title |-> Undef, content |-> Undef]

\* lines 17-18
isWordPressData(data) ==
    \/ data.yoast_head_json # Undef
    \/ data.meta # Undef
    \/ (Truthy(data.id) /\ Truthy(data.slug) /\ Truthy(data.link))

isUniversalData(data) == Truthy(data.content) /\ Truthy(TextOf(data.content))

\* the scrape test tried before the CMS test
ScrapeFirst(data) ==
    IF isUniversalData(data) THEN "scrape"
    ELSE IF isWordPressData(data) THEN "cms"
    ELSE "generic"

ShapeOf(data) ==
    IF isWordPressData(data) THEN "cms"
    ELSE IF isUniversalData(data) THEN "scrape"
    ELSE "generic"

\* lines 33-93: the object literal of the CMS projection
extractWordPressContent(d) ==
    [post_id |-> d.id,
     slug |-> d.slug,
     url |-> d.link,
     title |-> Or(Or(Rendered(d.title), d.title), ""),
     content |-> stripHtml(Or(Or(Rendered(d.content), d.content), "")),
     meta_description |-> "",
     headers |-> "[]",
     word_count |-> getWordCount(Or(Rendered(d.content), "")),
     images |-> Absent]

\* lines 98-152: the object literal of the scrape projection
extractUniversalContent(d) ==
    [post_id |-> d.id,
     slug |-> d.slug,
     url |-> d.link,
     title |-> Or(d.title, ""),
     content |-> Or(TextOf(d.content), ""),
     meta_description |-> "",
     headers |-> "[]",
     word_count |-> getWordCount(Or(TextOf(d.content), "")),
     images |-> "[]"]

\* lines 157-173: the object literal of the fallback projection
extractGenericContent(d) ==
    [post_id |-> Or(d.id, "unknown"),
     slug |-> Or(d.slug, "unknown"),
     url |-> Or(Or(d.link, d.url), ""),
     title |-> Or(d.title, ""),
     content |-> IF IsObject(d.content) \/ d.content = Undef
                 THEN Or(TextOf(d.content), "") ELSE d.content,
     meta_description |-> "",
     headers |-> "[]",
     word_count |-> getWordCount(Or(d.content, "")),
     images |-> Absent]

Projection(data) ==
    IF ShapeOf(data) = "cms" THEN extractWordPressContent(data)
    ELSE IF ShapeOf(data) = "scrape" THEN extractUniversalContent(data)
    ELSE extractGenericContent(data)

\* building the object literal threw
Threw(rec) == \E f \in Fields : rec[f] = TypeError

\* an extraction config: the entries of the object in insertion order; an
\* entry is a flag (field: true/false) or a section holding flags
Flag(key, on) == [key |-> key, section |-> FALSE, on |-> on, members |-> <<>>]

Section(key, members) == [key |-> key, section |-> TRUE, on |-> FALSE, members |-> members]

Config(entries) == [present |-> TRUE, entries |-> entries]

\* the extractor was constructed without a config
NoConfig == [present |-> FALSE, entries |-> <<>>]

AllFlags(on) == [i \in 1..Len(FieldSeq) |-> Flag(FieldSeq[i], on)]

ExtractionConfigs ==
    {NoConfig,
     Config(<<>>),
     Config(AllFlags(FALSE)),
     Config(AllFlags(TRUE)),
     Config(<<Section("seo", <<Flag("meta_description", TRUE), Flag("headers", FALSE)>>),
              Flag("images", TRUE)>>),
     Config(<<Section("seo", <<Flag("headers", TRUE)>>), Flag("headers", FALSE)>>),
     Config(<<Flag("headers", TRUE), Section("seo", <<Flag("headers", FALSE)>>)>>)}

\* lines 184-195: flattenConfig; a later entry of the same name overwrites
\* an earlier one and the section names are dropped
RECURSIVE flattenConfig(_, _, _)
flattenConfig(entries, i, flattened) ==
    IF i > Len(entries) THEN flattened
    ELSE IF entries[i].section
    THEN flattenConfig(entries, i + 1, flattenConfig(entries[i].members, 1, flattened))
    ELSE flattenConfig(entries, i + 1,
                       [flattened EXCEPT ![entries[i].key] = IF entries[i].on THEN "true"
                                                             ELSE "false"])

NothingFlattened == [f \in Fields |-> "unset"]

flatConfig(config) == flattenConfig(config.entries, 1, NothingFlattened)

\* lines 206-214: a section of the config enables the field
SectionEnables(config, f) ==
    \E i \in 1..Len(config.entries) :
        /\ config.entries[i].section
        /\ \E j \in 1..Len(config.entries[i].members) :
            /\ config.entries[i].members[j].key = f
            /\ config.entries[i].members[j].on

\* lines 199-223: which keys of the projection are copied
Copied(config, f) ==
    \/ flatConfig(config)[f] = "true"
    \/ SectionEnables(config, f)
    \/ f \in Essential

\* lines 178-225
applyConfigFilter(config, extractedContent) ==
    IF ~config.present THEN extractedContent
    ELSE [f \in Fields |->
            IF Copied(config, f) /\ extractedContent[f] \notin {Undef, Absent}
            THEN extractedContent[f]
            ELSE Absent]

NoRecord == [f \in Fields |-> Absent]

\* extract(data) is called on an extractor constructed with `config`
\* (lines 14-28)
Extracted(data, config, rec) ==
    /\ xRaw' = data
    /\ xConfig' = config
    /\ xShape' = ShapeOf(data)
    /\ xPc' = IF Threw(rec) THEN "threw" ELSE "returned"
    /\ xOut' = IF Threw(rec) THEN NoRecord ELSE applyConfigFilter(config, rec)
    /\ UNCHANGED notX

Extract ==
    /\ xPc = "idle"
    /\ \E data \in RawRecords, config \in ExtractionConfigs :
        Extracted(data, config, Projection(data))

\* universal-scraper.js lines 19-40: the record scrapeUrl(url) returns.  id
\* is ten base64 characters of the url, slug the last path segment or
\* 'homepage', link the url, title a non-empty string, content an object
\* {rendered, text}, meta the object of extractMeta (lines 111-123); it has
\* no yoast_head_json and no url member.
scrapeUrl(url) ==
    [yoast_head_json |-> Undef, meta |-> "{}", id |-> "42", slug |-> "my-post",
     link |-> url, url |-> Undef, title |-> "Title", content |-> "{rendered,text}"]

ScrapedUrls == {"https://site/my-post"}

\* part_002 lines 330-337: the scrape command scrapes a url and passes the
\* record to extract()
ScrapeAndExtract ==
    /\ xPc = "idle"
    /\ \E url \in ScrapedUrls, config \in ExtractionConfigs :
        Extracted(scrapeUrl(url), config, Projection(scrapeUrl(url)))

InitExtract ==
    /\ xPc = "idle"
    /\ xRaw = NoRaw
    /\ xConfig = NoConfig
    /\ xShape = "generic"
    /\ xOut = NoRecord

NextExtract ==
    \/ Extract
    \/ ScrapeAndExtract

-----------------------------------------------------------------------------
(***************************************************************************)
(* The evaluate command and processSinglePost (src/unnamed/part_002)       *)
(*                                                                         *)
(* Positions are counted from 1; the code's index is the position - 1.     *)
(***************************************************************************)

\* longest list of identifiers
MaxIds == 3

\* largest --batch-size given
MaxBatch == 3

\* iterations of the loop followed once i is negative
MaxSpin == 2

\* the identifier lists given: "a", "a,b", "a,b,a", ... (a list may name an
\* article twice; the values do not steer the loop)
IdValues == <<"a", "b">>

IdLists == {[i \in 1..n |-> IdValues[((i - 1) % Len(IdValues)) + 1]] : n \in 1..MaxIds}

\* the --batch-size option: an integer, or text parseInt makes NaN of
NotANumber == [nan |-> TRUE, n |-> 0]

Integer(n) == [nan |-> FALSE, n |-> n]

BatchOptions == {NotANumber} \cup {Integer(n) : n \in -1..MaxBatch}

\* line 95: parseInt(options.batchSize) || 3
batchSizeOf(option) == IF option.nan \/ option.n = 0 THEN 3 ELSE option.n

\* Array.prototype.slice(start, end) on an array of length len: the
\* positions it takes
SliceFrom(len, start) == IF start < 0 THEN (IF len + start < 0 THEN 0 ELSE len + start)
                         ELSE (IF start > len THEN len ELSE start)

slice(len, start, end) ==
    [j \in 1..(SliceFrom(len, end) - SliceFrom(len, start)) |-> SliceFrom(len, start) + j]

\* line 100: the batch of the iteration with loop variable i
BatchAt(i) == slice(Len(bIds), i, i + bBatchSize)

Range(seq) == {seq[j] : j \in 1..Len(seq)}

\* csv-writer.js lines 7-18 and 31: the header line, written by initialize()
HeaderLine == <<[t |-> "header", pos |-> 0], [t |-> "newline", pos |-> 0]>>

Stages == <<"fetch", "normalization", "evaluation", "report", "save">>

\* a processSinglePost call: where it is, the chunk it was started in, the
\* stages it completed, what made it throw, the overall_score and the
\* optimization_recommendation of its evaluation
\* whether its CSV row was appended, and the files save() wrote to its
\* report directory
NotStarted == [stage |-> "idle", chunk |-> 0, completed |-> 0, failed |-> "", score |-> 0,
               csv |-> "", writes |-> 0, files |-> <<>>, recommendation |-> "<undefined>"]

Started(chunk) == [NotStarted EXCEPT !.stage = "fetch", !.chunk = chunk]

IsSettled(pipe) == pipe.stage \in {"fulfilled", "rejected"}

InFlight == {p \in DOMAIN bPipe : bPipe[p].stage \in {"fetch", "evaluate", "save", "csv"}}

\* a variant in which a failed evaluation is replaced by a score of 0 and
\* the article goes on to the report
FabricateOnEvaluate(pipe, why) ==
    IF why = "evaluation"
    THEN [pipe EXCEPT !.stage = "save", !.failed = why, !.score = 0,
                      !.recommendation = Undef]
    ELSE [pipe EXCEPT !.stage = "rejected", !.failed = why, !.score = 0,
                      !.recommendation = Undef]

\* lines 275-278: the catch of processSinglePost rethrows
Reject(pipe, why) ==
    [pipe EXCEPT !.stage = "rejected", !.failed = why, !.score = 0, !.recommendation = Undef]

\* the await of `stage` has resolved
Advance(pipe, stage, completed) == [pipe EXCEPT !.stage = stage, !.completed = completed]

\* ReportGenerator.save(report, identifier.value): the directory the three
\* files of the article at position p are written to, path.join(reportsDir, slug)
ReportDir(p) == <<"reports", bIds[p]>>

\* lines 256-266: the result object
ResultOf(p) == [pos |-> p, slug |-> bIds[p], overall_score |-> bPipe[p].score]

\* lines 111-114: the error object
ErrorOf(p) == [pos |-> p, identifier |-> bIds[p],
               error |-> <<"Failed to process", bIds[p], bPipe[p].failed>>]

\* a variant of the collection that behaves like Promise.all: one
\* rejection and the chunk yields no result
FulfilledUnlessRejected(batch) ==
    IF \E j \in 1..Len(batch) : bPipe[batch[j]].stage = "rejected" THEN <<>>
    ELSE SelectSeq(batch, LAMBDA p : bPipe[p].stage = "fulfilled")

\* lines 107-117: the positions of the batch that fulfilled, and those
\* that rejected, in batch order
FulfilledOf(batch) == SelectSeq(batch, LAMBDA p : bPipe[p].stage = "fulfilled")

RejectedOf(batch) == SelectSeq(batch, LAMBDA p : bPipe[p].stage = "rejected")

\* lines 99-106: the pipelines of the batch start, each up to its first
\* await
StartBatch(pipes, batch, chunk) ==
    [p \in DOMAIN pipes |-> IF p \in Range(batch) THEN Started(chunk) ELSE pipes[p]]

\* the process has not ended
Running == -1

\* a variant in which a run that recorded an error ends like a failed one
ExitOneOnErrors(errors) == IF Len(errors) > 0 THEN 1 ELSE 0

\* r.<name> of a result object: undefined when it has no such member
Member(r, name) == IF name \in DOMAIN r THEN r[name] ELSE Undef

\* line 166: the line printed when the list is empty
AllPerformingWell == <<0, "All posts are performing well!", 0>>

\* lines 156-167: the lines under "Needs Optimization"
needsOptimization(results) ==
    LET needs == SelectSeq(results,
                           LAMBDA r : Member(r, "optimization_recommendation") = "Optimize")
    IN  IF Len(needs) > 0
        THEN [j \in 1..(IF Len(needs) < 3 THEN Len(needs) ELSE 3) |->
                 <<j, needs[j].slug, needs[j].overall_score>>]
        ELSE <<AllPerformingWell>>

\* lines 128-176: the summary only prints; the action returns and the
\* process ends with status 0
ExitAfterSummary(errors) == 0

\* lines 99-126 from the loop test on: the loop starts the batch at i, or
\* ends and the summary is printed (lines 128-175)
LoopFrom(i, pipes) ==
    /\ bI' = i
    /\ IF i < Len(bIds)
       THEN /\ bPc' = "chunk"
            /\ bChunks' = bChunks + 1
            /\ bPipe' = StartBatch(pipes, slice(Len(bIds), i, i + bBatchSize), bChunks + 1)
            /\ UNCHANGED bExit
       ELSE /\ bPc' = "done"
            /\ bPipe' = pipes
            /\ bExit' = ExitAfterSummary(bErrors')
            /\ UNCHANGED bChunks

\* the action of the evaluate command up to its first batch (lines 45-106)
RunEvaluate ==
    /\ bPc = "start"
    /\ \E ids \in IdLists, option \in BatchOptions :
        /\ bIds' = ids
        /\ bOption' = option
        /\ bBatchSize' = batchSizeOf(option)
        /\ bI' = 0
        /\ bPc' = "chunk"
        /\ bChunks' = 1
        /\ bPipe' = StartBatch([p \in 1..Len(ids) |-> NotStarted],
                               slice(Len(ids), 0, batchSizeOf(option)), 1)
    /\ bFile' = HeaderLine
    /\ UNCHANGED <<bResults, bErrors, bCause, bExit>>
    /\ UNCHANGED notB

\* what ends the setup: loadExtractionConfig or loadEvaluationConfig throws
\* (lines 50-51), no identifier option is given (lines 83-86), the file
\* holds no slug (lines 88-91)
SetupFailures == {"extractionConfig", "evaluationConfig", "noOption", "noIdentifiers"}

\* a variant whose catch reports the error and lets the process end normally
ReportedOnly(cause) == IF cause \in {"noOption", "noIdentifiers"} THEN 1 ELSE 0

\* lines 85, 90 and 180: process.exit(1)
SetupExit(cause) == 1

\* a configuration does not load, no identifier option is given or the
\* file holds no slug (lines 48-52, 84-90, 177-181)
SetupFails ==
    /\ bPc = "start"
    /\ \E cause \in SetupFailures :
        /\ bCause' = cause
        /\ bExit' = SetupExit(cause)
        /\ bFile' = IF cause \in {"noOption", "noIdentifiers"} THEN HeaderLine ELSE <<>>
    /\ bPc' = "exit1"
    /\ UNCHANGED <<bOption, bIds, bBatchSize, bI, bChunks, bPipe, bResults, bErrors>>
    /\ UNCHANGED notB

\* a variant that writes the row and its newline in two calls
NewlineSeparately(p) ==
    <<<<[t |-> "row", pos |-> p]>>, <<[t |-> "newline", pos |-> p]>>>>

\* csv-writer.js line 84: the calls of fs.appendFile that append the row of
\* the article at position p, each with what it writes
AppendCalls(p) == <<<<[t |-> "row", pos |-> p], [t |-> "newline", pos |-> p]>>>>

\* the pipeline at p takes a step that appends `written` to the summary file
StepWriting(p, pipe, written) ==
    /\ bPipe' = [bPipe EXCEPT ![p] = pipe]
    /\ bFile' = bFile \o written
    /\ UNCHANGED <<bPc, bOption, bIds, bBatchSize, bI, bChunks, bResults, bErrors, bCause, bExit>>
    /\ UNCHANGED notB

Step(p, pipe) == StepWriting(p, pipe, <<>>)

\* getPost settles; if it resolved the record is normalized by extract()
\* and evaluate() is called (lines 216-230)
FetchSettles ==
    /\ bPc = "chunk"
    /\ \E p \in DOMAIN bPipe :
        /\ bPipe[p].stage = "fetch"
        /\ \/ Step(p, Reject(bPipe[p], "fetch"))
           \/ Step(p, Reject(Advance(bPipe[p], "fetch", 1), "normalization"))
           \/ Step(p, Advance(bPipe[p], "evaluate", 2))

\* the overall_score and optimization_recommendation an evaluation can
\* carry: the recommendation is the reply's own member, if it has one
Scores ==
    {[overall_score |-> 40, optimization_recommendation |-> "Optimize"],
     [overall_score |-> 40, optimization_recommendation |-> Undef],
     [overall_score |-> 80, optimization_recommendation |-> Undef]}

\* evaluate() settles; if it resolved the report is generated and save()
\* is called (lines 229-238)
EvaluateSettles ==
    /\ bPc = "chunk"
    /\ \E p \in DOMAIN bPipe :
        /\ bPipe[p].stage = "evaluate"
        /\ \/ Step(p, Reject(bPipe[p], "evaluation"))
           \/ Step(p, Reject(Advance(bPipe[p], "evaluate", 3), "report"))
           \/ \E evaluation \in Scores :
                Step(p, [Advance(bPipe[p], "save", 4) EXCEPT
                            !.score = evaluation.overall_score,
                            !.recommendation = evaluation.optimization_recommendation])

\* test-report-generation.js lines 374-384: the writeFile calls of save(),
\* in order, each with the file's name and the value it serializes
WriteFiles ==
    <<[name |-> "seo-analysis-report.md", holds |-> "report.content"],
      [name |-> "metadata.json", holds |-> "report.metadata"],
      [name |-> "raw-evaluation.json", holds |-> "report.metadata"]>>

\* save() with its first k writeFile calls resolved
Saved(pipe, calls, k) == [pipe EXCEPT !.files = SubSeq(calls, 1, k)]

\* save() settles: it throws at mkdir or at one of its writes, or it
\* resolves; if it resolved the strengths and issues are read off
\* the evaluation, which throws on a criterion that is null, and the CSV
\* row is handed to appendResult (lines 237-272)
SaveSettles ==
    /\ bPc = "chunk"
    /\ \E p \in DOMAIN bPipe :
        /\ bPipe[p].stage = "save"
        /\ \/ \E k \in 0..(Len(WriteFiles) - 1) :
                Step(p, Reject(Saved(bPipe[p], WriteFiles, k), "save"))
           \/ Step(p, Reject(Advance(Saved(bPipe[p], WriteFiles, Len(WriteFiles)), "save", 5),
                             "strengths"))
           \/ Step(p, Advance(Saved(bPipe[p], WriteFiles, Len(WriteFiles)), "csv", 5))

\* the k-th appendFile call of the row resolves; after the last one
\* appendResult resolves
Appended(p, calls, k) ==
    StepWriting(p,
                IF k = Len(calls)
                THEN [bPipe[p] EXCEPT !.stage = "fulfilled", !.csv = "appended", !.writes = k]
                ELSE [bPipe[p] EXCEPT !.writes = k],
                calls[k])

\* appendResult settles: it resolves whether or not the row was appended
\* (csv-writer.js lines 66-89), and processSinglePost returns the result
CsvSettles ==
    /\ bPc = "chunk"
    /\ \E p \in DOMAIN bPipe :
        /\ bPipe[p].stage = "csv"
        /\ \/ /\ bPipe[p].writes = 0
              /\ Step(p, [bPipe[p] EXCEPT !.stage = "fulfilled", !.csv = "lost"])
           \/ Appended(p, AppendCalls(p), bPipe[p].writes + 1)

\* Promise.allSettled of the batch resolves: its outcomes are collected in
\* batch order, and the loop goes on (lines 103-126)
Collected(batch) ==
    /\ bResults' = bResults \o [j \in 1..Len(FulfilledOf(batch)) |-> ResultOf(FulfilledOf(batch)[j])]
    /\ bErrors' = bErrors \o [j \in 1..Len(RejectedOf(batch)) |-> ErrorOf(RejectedOf(batch)[j])]
    /\ LoopFrom(bI + bBatchSize, bPipe)
    /\ UNCHANGED <<bOption, bIds, bBatchSize, bCause, bFile>>
    /\ UNCHANGED notB

\* With a negative batch size i decreases without end and every further
\* batch is empty; the iterations below -MaxSpin are not told apart.
ChunkSettles ==
    /\ bPc = "chunk"
    /\ bI > -MaxSpin
    /\ \A p \in Range(BatchAt(bI)) : IsSettled(bPipe[p])
    /\ Collected(BatchAt(bI))

InitBatch ==
    /\ bPc = "start"
    /\ bOption = Integer(3)
    /\ bIds = <<>>
    /\ bBatchSize = 3
    /\ bI = 0
    /\ bChunks = 0
    /\ bPipe = <<>>
    /\ bResults = <<>>
    /\ bErrors = <<>>
    /\ bCause = ""
    /\ bExit = Running
    /\ bFile = <<>>

NextBatch ==
    \/ RunEvaluate
    \/ SetupFails
    \/ FetchSettles
    \/ EvaluateSettles
    \/ SaveSettles
    \/ CsvSettles
    \/ ChunkSettles

-----------------------------------------------------------------------------
(***************************************************************************)
(* parseEvaluationResponse, lines 340-430, on model texts that hold string *)
(* literals: {"k":[ literal sep literal ... ]} and {"k":literal}           *)
(***************************************************************************)

\* most string literals in the array
MaxItems == 2

\* what stands between the quotes of a literal: nothing, a letter, a
\* blank, //a, a], [a, a word with two blanks, an escaped quote
LiteralContents ==
    {<<>>, <<"a">>, <<" ">>, <<"/", "/", "a">>, <<"a", "]">>, <<"[", "a">>,
     <<"a", " ", " ", "b">>, <<"\\", "\"">>}

\* what stands between two literals of the array
Separators == {<<>>, <<" ">>, <<"\n">>, <<",">>, <<",", " ">>}

Literal(content) == <<"\"">> \o content \o <<"\"">>

RECURSIVE JoinLiterals(_, _, _)
JoinLiterals(items, seps, i) ==
    IF i > Len(items) THEN <<>>
    ELSE (IF i > 1 THEN seps[i - 1] ELSE <<>>) \o Literal(items[i])
         \o JoinLiterals(items, seps, i + 1)

ArrayText(items, seps) ==
    <<"{", "\"", "k", "\"", ":", "[">> \o JoinLiterals(items, seps, 1) \o <<"]", "}">>

MemberText(item) == <<"{", "\"", "k", "\"", ":">> \o Literal(item) \o <<"}">>

\* lines 344-430 for a text that includes "{": the value of `evaluation`
\* after JSON.parse, or the failure of JSON.parse
Reparsed(kind, items, seps, text) ==
    /\ rKind' = kind
    /\ rItems' = items
    /\ rSeps' = seps
    /\ rText' = text
    /\ rValue' = JSONparse(RepairedJson(text))
    /\ rPc' = IF JSONparse(RepairedJson(text)).ok THEN "parsed" ELSE "threw"
    /\ UNCHANGED notR

\* the model answers with an object whose member is an array of string
\* literals
ParseArrayText ==
    /\ rPc = "idle"
    /\ \E n \in 1..MaxItems :
        \E items \in [1..n -> LiteralContents], seps \in [1..(n - 1) -> Separators] :
            Reparsed("array", items, seps, ArrayText(items, seps))

\* the model answers with an object whose member is a string literal
ParseMemberText ==
    /\ rPc = "idle"
    /\ \E item \in LiteralContents :
        Reparsed("member", <<item>>, <<>>, MemberText(item))

InitRepair ==
    /\ rPc = "idle"
    /\ rKind = "member"
    /\ rItems = <<>>
    /\ rSeps = <<>>
    /\ rText = <<>>
    /\ rValue = PFail

NextRepair == ParseArrayText \/ ParseMemberText

-----------------------------------------------------------------------------
(***************************************************************************)
(* ContentExtractor.buildRobotsDirective (content-extractor.js 286-336)    *)
(***************************************************************************)

SubDirectives == <<"index", "follow", "archive", "snippet">>

SubDirectiveSet == {"index", "follow", "archive", "snippet"}

\* the value that forbids: robots.index === 'noindex', ...
Forbidding == [index |-> "noindex", follow |-> "nofollow", archive |-> "noarchive",
               snippet |-> "nosnippet"]

\* yoast_head_json.robots: each sub-directive is missing, allows or forbids
RobotsBlocks ==
    {b \in [SubDirectiveSet -> {Undef, "index", "follow", "archive", "snippet", "noindex",
                                 "nofollow", "noarchive", "nosnippet"}] :
        \A d \in SubDirectiveSet : b[d] \in {Undef, d, Forbidding[d]}}

\* robots.imageindex === 'noimageindex' and the truthy max_* members, by the
\* directive each adds (lines 318-333)
Additional == <<"noimageindex", "max-snippet", "max-image-preview", "max-video-preview">>

NoBlock == [d \in SubDirectiveSet |-> Undef]

\* the yoastHeadJson argument: null, or an object whose robots member has
\* the block and the additional members
YoastNull == [present |-> FALSE, robots |-> NoBlock, additional |-> {}]

YoastWith(block, additional) == [present |-> TRUE, robots |-> block, additional |-> additional]

\* the meta argument: null, or an object whose
\* _yoast_wpseo_meta_robots_no<d> keys are missing or '1'
MetaNull == [present |-> FALSE, no |-> NoBlock]

MetaWith(no) == [present |-> TRUE, no |-> no]

MetaMaps == {MetaNull} \cup {MetaWith(no) : no \in [SubDirectiveSet -> {Undef, "1"}]}

\* lines 297-316: one sub-directive
Directive(d, robots, meta) ==
    IF robots[d] = Forbidding[d] \/ meta.no[d] = "1" THEN <<Forbidding[d]>>
    ELSE IF d \in {"index", "follow"} THEN <<d>>
    ELSE <<>>

RECURSIVE Directives(_, _, _)
Directives(i, robots, meta) ==
    IF i > Len(SubDirectives) THEN <<>>
    ELSE Directive(SubDirectives[i], robots, meta) \o Directives(i + 1, robots, meta)

\* lines 318-333
AdditionalDirectives(additional) == SelectSeq(Additional, LAMBDA a : a \in additional)

\* lines 286-336; the result before directives.join(', ')
buildRobotsDirective(meta, yoastHeadJson) ==
    IF ~meta.present /\ ~yoastHeadJson.present THEN <<>>
    ELSE Directives(1, yoastHeadJson.robots, meta)
            \o AdditionalDirectives(yoastHeadJson.additional)

Built(meta, yoastHeadJson) ==
    /\ dPc' = "returned"
    /\ dMeta' = meta
    /\ dYoast' = yoastHeadJson
    /\ dOut' = buildRobotsDirective(meta, yoastHeadJson)
    /\ UNCHANGED notD

\* line 81: extractWordPressContent calls it with the record's meta and
\* yoast_head_json
BuildRobots ==
    /\ dPc = "idle"
    /\ \E meta \in MetaMaps :
        \/ Built(meta, YoastNull)
        \/ \E block \in RobotsBlocks, additional \in SUBSET {"noimageindex", "max-snippet"} :
              Built(meta, YoastWith(block, additional))

InitRobots ==
    /\ dPc = "idle"
    /\ dMeta = MetaNull
    /\ dYoast = YoastNull
    /\ dOut = <<>>

NextRobots == BuildRobots

-----------------------------------------------------------------------------
(***************************************************************************)
(* The SEO and social fields of extractWordPressContent                    *)
(* (content-extractor.js 33-93)                                            *)
(***************************************************************************)

\* the members of yoast_head_json the fields read; the meta key of the same
\* purpose (_yoast_wpseo_metadesc, _yoast_wpseo_focuskw, _yoast_wpseo_title,
\* ...) goes by the same name in the model.  og_image stands for
\* yoast.og_image?.[0]?.url in the block.
SeoKeys == {"description", "focus_keywords", "title", "canonical", "primary_category",
            "og_title", "og_description", "og_image", "twitter_title",
            "twitter_description", "twitter_image"}

\* the fields of the record and the member each reads
KeyOf == [meta_description |-> "description",
          yoast_focus_keyword |-> "focus_keywords",
          yoast_seo_title |-> "title",
          yoast_canonical |-> "canonical",
          primary_category |-> "primary_category",
          canonical_url |-> "canonical",
          og_title |-> "og_title",
          og_description |-> "og_description",
          og_image |-> "og_image",
          twitter_title |-> "twitter_title",
          twitter_description |-> "twitter_description",
          twitter_image |-> "twitter_image"]

SeoFields == DOMAIN KeyOf

\* a member is missing, empty or has a value
StructuredVals == {Undef, "", "structured value"}
FlatVals == {Undef, "", "flat value"}

\* an object all of whose members are `base` except k1 and k2
Members(base, k1, v1, k2, v2) ==
    [k \in SeoKeys |-> IF k = k2 THEN v2 ELSE IF k = k1 THEN v1 ELSE base]

NoMembersSet == [k \in SeoKeys |-> Undef]

\* yoast_head_json and meta: undefined, null or an object
Missing(v) == [is |-> v, members |-> NoMembersSet]

ObjectWith(members) == [is |-> "object", members |-> members]

\* line 36-37: wordpressData.yoast_head_json || {} and wordpressData.meta || {}
OrEmpty(v) == v.members

\* lines 48-91: yoast.<member> || meta.<key> || ''
SeoField(f, yoast, meta) == Or(Or(yoast[KeyOf[f]], meta[KeyOf[f]]), "")

\* line 80: wordpressData.meta?._yoast_wpseo_canonical || wordpressData.link || ''
canonical_url(meta, link) == Or(Or(meta["canonical"], link), "")

extractSeoFields(yoast_head_json, meta, link) ==
    [f \in SeoFields |->
        IF f = "canonical_url" THEN canonical_url(OrEmpty(meta), link)
        ELSE SeoField(f, OrEmpty(yoast_head_json), OrEmpty(meta))]

SeoProjected(yoast_head_json, meta, link) ==
    /\ sPc' = "returned"
    /\ sYoast' = yoast_head_json
    /\ sMeta' = meta
    /\ sLink' = link
    /\ sOut' = extractSeoFields(yoast_head_json, meta, link)
    /\ UNCHANGED notS

Links == {Undef, "https://site/my-post"}

\* a record neither of whose sources is an object
ProjectWithoutSources ==
    /\ sPc = "idle"
    /\ \E y \in {Undef, JsNull}, m \in {Undef, JsNull}, link \in Links :
        SeoProjected(Missing(y), Missing(m), link)

\* a record with one source
ProjectOneSource ==
    /\ sPc = "idle"
    /\ \E k1, k2 \in SeoKeys, link \in Links, none \in {Undef, JsNull} :
        \/ \E v1, v2, base \in StructuredVals :
              SeoProjected(ObjectWith(Members(base, k1, v1, k2, v2)), Missing(none), link)
        \/ \E v1, v2, base \in FlatVals :
              SeoProjected(Missing(none), ObjectWith(Members(base, k1, v1, k2, v2)), link)

\* a record with both sources: two members take every combination of
\* values in the block and in the flat keys, the others are all alike
ProjectBothSources ==
    /\ sPc = "idle"
    /\ \E k1, k2 \in SeoKeys, link \in Links :
        \E y1, y2, ybase \in StructuredVals, m1, m2, mbase \in FlatVals :
            SeoProjected(ObjectWith(Members(ybase, k1, y1, k2, y2)),
                         ObjectWith(Members(mbase, k1, m1, k2, m2)), link)

InitSeo ==
    /\ sPc = "idle"
    /\ sYoast = Missing(Undef)
    /\ sMeta = Missing(Undef)
    /\ sLink = Undef
    /\ sOut = [f \in SeoFields |-> ""]

NextSeo ==
    \/ ProjectWithoutSources
    \/ ProjectOneSource
    \/ ProjectBothSources

-----------------------------------------------------------------------------
(***************************************************************************)
(* loadSlugsFromFile (part_002 189-201)                                    *)
(***************************************************************************)

MaxFileLen == 5

FileChars == {"a", "#", " ", "\n"}

RECURSIVE FilesOfLen(_)
FilesOfLen(n) ==
    IF n = 0 THEN {<<>>}
    ELSE {Append(t, c) : t \in FilesOfLen(n - 1), c \in FileChars}

FileContents == UNION {FilesOfLen(n) : n \in 0..MaxFileLen}

\* line 193: content.split('\n')
RECURSIVE Split(_)
Split(content) ==
    IF ~Includes(content, "\n") THEN <<content>>
    ELSE LET i == CHOOSE k \in 1..Len(content) :
                    content[k] = "\n" /\ \A j \in 1..(k - 1) : content[j] # "\n"
         IN  <<SubSeq(content, 1, i - 1)>> \o Split(From(content, i + 1))

\* a variant of the filter that keeps comment lines
KeepsNonEmpty(line) == Len(line) > 0

\* line 195: line.length > 0 && !line.startsWith('#')
KeepsLine(line) == Len(line) > 0 /\ line[1] # "#"

\* lines 192-197
loadSlugs(content) ==
    LET trimmed == [i \in 1..Len(Split(content)) |-> Trim(Split(content)[i])]
        slugs == SelectSeq(trimmed, KeepsLine)
    IN  [j \in 1..Len(slugs) |-> [type |-> "slug", value |-> slugs[j]]]

\* readFile resolves
LoadSlugs ==
    /\ fPc = "idle"
    /\ \E content \in FileContents :
        /\ fPc' = "returned"
        /\ fContent' = content
        /\ fOut' = loadSlugs(content)
    /\ UNCHANGED notF

\* lines 198-200: readFile rejects
ReadFileFails ==
    /\ fPc = "idle"
    /\ fPc' = "threw"
    /\ UNCHANGED <<fContent, fOut>>
    /\ UNCHANGED notF

InitSlugs ==
    /\ fPc = "idle"
    /\ fContent = <<>>
    /\ fOut = <<>>

NextSlugs ==
    \/ LoadSlugs
    \/ ReadFileFails

-----------------------------------------------------------------------------
(***************************************************************************)
(* ErrorLogger.logError (part_004 26-61)                                   *)
(*                                                                         *)
(* A call of logError is named by a number, which also stands for the      *)
(* entry it builds; 0 is an entry the file held before.  Calls are not     *)
(* serialized: each runs up to its next await, and the awaited file        *)
(* operations of different calls resolve in any order.                     *)
(***************************************************************************)

\* the number of logError calls
MaxLoggers == 3

Loggers == 1..MaxLoggers

NotCalled == [pc |-> "idle", logs |-> <<>>, caught |-> ""]

\* the call c goes on as `call`
LogStep(c, call) == lCalls' = [lCalls EXCEPT ![c] = call]

\* line 29: logError is called and readFile is issued
LogErrorCall ==
    /\ \E c \in Loggers :
        /\ lCalls[c].pc = "idle"
        /\ LogStep(c, [lCalls[c] EXCEPT !.pc = "reading"])
    /\ UNCHANGED <<lFile, lDaily>>
    /\ UNCHANGED notL

\* lines 29-49: readFile resolves and its text is parsed, the entry is
\* pushed and writeFile is issued.  While another call's writeFile is under
\* way the file is truncated or partly written: the text read is then the
\* whole content or a part of it that JSON.parse rejects (line 58).
ReadResolves ==
    /\ \E c \in Loggers :
        /\ lCalls[c].pc = "reading"
        /\ \/ LogStep(c, [lCalls[c] EXCEPT !.pc = "writing", !.logs = Append(lFile, c)])
           \/ /\ \E o \in Loggers \ {c} : lCalls[o].pc = "writing"
              /\ LogStep(c, [lCalls[c] EXCEPT !.pc = "done", !.caught = "SyntaxError"])
    /\ UNCHANGED <<lFile, lDaily>>
    /\ UNCHANGED notL

\* lines 49-56: writeFile resolves, the file holds the logs of this call;
\* appendFile is issued
WriteResolves ==
    /\ \E c \in Loggers :
        /\ lCalls[c].pc = "writing"
        /\ lFile' = lCalls[c].logs
        /\ LogStep(c, [lCalls[c] EXCEPT !.pc = "appending"])
    /\ UNCHANGED lDaily
    /\ UNCHANGED notL

\* line 56: appendFile resolves and logError returns
AppendResolves ==
    /\ \E c \in Loggers :
        /\ lCalls[c].pc = "appending"
        /\ lDaily' = Append(lDaily, c)
        /\ LogStep(c, [lCalls[c] EXCEPT !.pc = "done"])
    /\ UNCHANGED lFile
    /\ UNCHANGED notL

\* lines 58-60: a file operation rejects; the catch prints and logError
\* returns
FileOperationFails ==
    /\ \E c \in Loggers :
        /\ lCalls[c].pc \in {"reading", "writing", "appending"}
        /\ LogStep(c, [lCalls[c] EXCEPT !.pc = "done", !.caught = "io"])
    /\ UNCHANGED <<lFile, lDaily>>
    /\ UNCHANGED notL

InitLogger ==
    /\ lCalls = [c \in Loggers |-> NotCalled]
    /\ lFile = <<0>>
    /\ lDaily = <<>>

NextLogger ==
    \/ LogErrorCall
    \/ ReadResolves
    \/ WriteResolves
    \/ AppendResolves
    \/ FileOperationFails

-----------------------------------------------------------------------------
(***************************************************************************)
(* Specifications: one per component, the others idle                      *)
(***************************************************************************)
\* no call has been made yet
Init ==
    /\ InitEval
    /\ InitWP
    /\ InitExtract
    /\ InitBatch
    /\ InitRepair
    /\ InitRobots
    /\ InitSeo
    /\ InitSlugs
    /\ InitLogger

SpecEval == Init /\ [][NextEval]_vars

SpecWP == Init /\ [][NextWP]_vars

SpecExtract == Init /\ [][NextExtract]_vars

SpecBatch == Init /\ [][NextBatch]_vars

\* the evaluate command when every promise it awaits settles and the event
\* loop runs every continuation that is ready
SpecBatchFair ==
    /\ SpecBatch
    /\ WF_vars(FetchSettles)
    /\ WF_vars(EvaluateSettles)
    /\ WF_vars(SaveSettles)
    /\ WF_vars(CsvSettles)
    /\ WF_vars(ChunkSettles)

SpecRepair == Init /\ [][NextRepair]_vars

SpecRobots == Init /\ [][NextRobots]_vars

SpecSeo == Init /\ [][NextSeo]_vars

SpecSlugs == Init /\ [][NextSlugs]_vars

SpecLogger == Init /\ [][NextLogger]_vars

-----------------------------------------------------------------------------
(***************************************************************************)
(* Properties of GeminiClient.evaluate, checked under SpecEval             *)
(***************************************************************************)

Settled_g == gPc \in {"returned", "rejected"}

AnsweredObject == Settled_g /\ gReply.body = "object"

AnsweredText == Settled_g /\ gReply.body = "text"

AllScoresNumeric(crit) == \A k \in CriteriaSet : crit[k].tag = "number"

\* round(0.20 eeat + 0.10 technical + 0.20 relevance + 0.10 text_quality
\*       + 0.25 ai_optimization + 0.15 freshness), halves rounded up
WeightedOverall(crit) ==
    (20 * crit["eeat_score"].n + 10 * crit["technical_score"].n
     + 20 * crit["relevance_score"].n + 10 * crit["text_quality_score"].n
     + 25 * crit["ai_optimization_score"].n + 15 * crit["freshness_score"].n
     + 50) \div 100

\* msg wraps cause: cause is a contiguous part of msg
Wraps(msg, cause) ==
    /\ cause # <<>>
    /\ \E i \in 1..Len(msg) :
        /\ i + Len(cause) - 1 <= Len(msg)
        /\ SubSeq(msg, i, i + Len(cause) - 1) = cause

\* C1: an evaluation returned for a response that scores all six criteria
\* has overall_score = round(0.20 eeat + 0.10 technical + 0.20 relevance +
\* 0.10 text_quality + 0.25 ai_optimization + 0.15 freshness), whatever
\* overall_score the upstream JSON carried.
C1_OverallIsWeightedSum ==
    (AnsweredObject /\ AllScoresNumeric(gReply.obj.crit)) =>
        /\ gPc = "returned"
        /\ gEval.crit = gReply.obj.crit
        /\ gEval.overall_score = Num(WeightedOverall(gReply.obj.crit))

\* the upstream JSON carried overall_score 55, only ai_optimization scored
\* (70): 0.25 * 70 = 17.5, returned as 18
C1_Witness ==
    /\ gPc = "returned"
    /\ gReply.body = "object"
    /\ AllScoresNumeric(gReply.obj.crit)
    /\ gReply.obj.overall = Num(55)
    /\ gReply.obj.crit["ai_optimization_score"] = Num(70)
    /\ gEval.overall_score = Num(18)

\* C2: when the parsed response lacks the score of one of the six criteria,
\* or carries null as one, evaluate() fails: it returns no evaluation in
\* which that criterion counted as 0.
C2_MissingScoreFails ==
    (AnsweredObject /\ ~AllScoresNumeric(gReply.obj.crit)) => gPc = "rejected"

\* C9 as stated: every call to evaluate() has sent exactly one POST once it
\* has settled, whatever the outcome.
C9_ExactlyOnePost == Settled_g => gPosts = 1

\* C9, amended: a call to evaluate() sends one POST if its prompt was built
\* and none if building the prompt threw; it never sends a second one, and
\* on HTTP 429, 400, 404, another error status or a network failure it
\* rejects.
C9_NoSecondPost ==
    /\ gCalls > 0 => gPosts = (IF buildEvaluationPrompt(gPrompt).ok THEN 1 ELSE 0)
    /\ (Settled_g /\ gReply.net \notin {"none", "2xx"}) => (gPc = "rejected" /\ gPosts = 1)

\* the endpoint answered 429 and the call rejected with the rate limit
\* message
C9_Witness ==
    /\ gPc = "rejected"
    /\ gReply.net = "http"
    /\ gReply.status = 429
    /\ gPosts = 1
    /\ gErr[2] = "Gemini API rate limit exceeded. Please try again later."

\* some part of the text is a JSON object
ContainsJsonObject(text) ==
    \E i \in 1..Len(text) : \E j \in i..Len(text) :
        JSONparse(SubSeq(text, i, j)).ok /\ JSONparse(SubSeq(text, i, j)).val.t = "object"

TransportFailed == Settled_g /\ gReply.net \notin {"none", "2xx"}

\* C10: if the transport fails, or the model text contains no JSON object,
\* or the repaired text does not parse as JSON, evaluate() rejects with an
\* error that wraps the message of the root cause, and returns no
\* evaluation object.
C10_FailuresReject ==
    (\/ TransportFailed
     \/ AnsweredText /\ ~ContainsJsonObject(gReply.text)
     \/ AnsweredText /\ ~JSONparse(RepairedJson(gReply.text)).ok)
    => (gPc = "rejected" /\ gEval = NoEvaluation /\ Wraps(gErr, gCause))

\* config.output_format.optimization_threshold || 75 of a config that sets
\* no threshold
DefaultThreshold == 75

\* C15: the optimization_recommendation of an evaluation that evaluate()
\* returns is "Optimize" exactly when the recomputed overall_score is
\* strictly below the optimization threshold (75 unless configured).
C15_RecommendationByThreshold ==
    (gPc = "returned" /\ gEval.kind = "object") =>
        ((gEval.optimization_recommendation = "Optimize")
            <=> (gEval.overall_score.n < DefaultThreshold))

-----------------------------------------------------------------------------
(***************************************************************************)
(* Properties of the evaluate command, checked under SpecBatch             *)
(***************************************************************************)

Positions == 1..Len(bIds)

SuccessesOf(p) == {j \in 1..Len(bResults) : bResults[j].pos = p}

FailuresOf(p) == {j \in 1..Len(bErrors) : bErrors[j].pos = p}

\* C3: a rejected article neither fails its siblings nor stops later
\* chunks: when the run ends every identifier is accounted for exactly
\* once, by a success record if its pipeline fulfilled and by a failure
\* record holding the identifier and the error message if it rejected, so
\* successes + failures = number of identifiers.
C3_EveryIdentifierAccounted ==
    bPc = "done" =>
        /\ Len(bResults) + Len(bErrors) = Len(bIds)
        /\ \A p \in Positions :
            /\ IsSettled(bPipe[p])
            /\ Cardinality(SuccessesOf(p)) + Cardinality(FailuresOf(p)) = 1
            /\ bPipe[p].stage = "fulfilled" =>
                \E j \in SuccessesOf(p) : bResults[j].slug = bIds[p]
            /\ bPipe[p].stage = "rejected" =>
                \E j \in FailuresOf(p) :
                    /\ bErrors[j].identifier = bIds[p]
                    /\ bErrors[j].error = <<"Failed to process", bIds[p], bPipe[p].failed>>

\* the run ended; in one chunk an article rejected and its sibling
\* fulfilled, and an article of a later chunk fulfilled
C3_Witness ==
    /\ bPc = "done"
    /\ \E p, q, r \in Positions :
        /\ bPipe[p].chunk = bPipe[q].chunk
        /\ bPipe[p].stage = "rejected"
        /\ bPipe[q].stage = "fulfilled"
        /\ bPipe[r].chunk > bPipe[p].chunk
        /\ bPipe[r].stage = "fulfilled"
        /\ SuccessesOf(q) # {}
        /\ FailuresOf(p) # {}

\* C4: no article of chunk N+1 starts before every article of chunk N has
\* settled, chunks run in input-list order, and at every moment at most
\* batchSize article pipelines are in flight.
C4_ChunksSequentialAndBounded ==
    bPc \in {"chunk", "done"} =>
        /\ \A p, q \in Positions :
            (bPipe[p].chunk > 0 /\ bPipe[q].chunk > bPipe[p].chunk) => IsSettled(bPipe[p])
        /\ \A p, q \in Positions :
            (p < q /\ bPipe[q].chunk > 0) => (bPipe[p].chunk > 0 /\ bPipe[p].chunk <= bPipe[q].chunk)
        /\ InFlight # {} => Cardinality(InFlight) <= bBatchSize

\* C5: a success record exists only for an article whose fetch,
\* normalization, evaluation, report and save all completed; an article
\* one of whose stages failed is rejected, has no success record and no
\* score, and is in the failure records when the run ends.
C5_SuccessOnlyAfterAllStages ==
    /\ \A j \in 1..Len(bResults) :
        /\ bPipe[bResults[j].pos].completed = Len(Stages)
        /\ bPipe[bResults[j].pos].failed = ""
        /\ bPipe[bResults[j].pos].stage = "fulfilled"
    /\ \A p \in DOMAIN bPipe :
        bPipe[p].failed \in Range(Stages) =>
            /\ bPipe[p].stage = "rejected"
            /\ bPipe[p].score = 0
            /\ SuccessesOf(p) = {}
            /\ bPc = "done" => FailuresOf(p) # {}

\* the run ended with a success record for an article whose CSV row was
\* lost, and failure records for an evaluation and a save that failed
C5_Witness ==
    /\ bPc = "done"
    /\ \E p, q, r \in Positions :
        /\ bPipe[p].stage = "fulfilled" /\ bPipe[p].csv = "lost" /\ SuccessesOf(p) # {}
        /\ bPipe[q].failed = "evaluation" /\ FailuresOf(q) # {}
        /\ bPipe[r].failed = "save" /\ FailuresOf(r) # {}

NothingStarted ==
    /\ bChunks = 0
    /\ \A p \in DOMAIN bPipe : bPipe[p].stage = "idle" /\ bPipe[p].completed = 0
    /\ bResults = <<>>
    /\ bErrors = <<>>

\* C16: when loading the extraction or the evaluation configuration fails,
\* or no identifier option is given, the evaluate command ends with a
\* non-zero exit status and no article fetch, evaluation or report write
\* has been started.
C16_SetupFailureIsFatal ==
    bCause \in {"extractionConfig", "evaluationConfig", "noOption"} =>
        /\ bPc = "exit1"
        /\ bExit \notin {Running, 0}
        /\ NothingStarted

C16_Witness ==
    /\ bPc = "exit1"
    /\ bCause = "evaluationConfig"
    /\ bExit = 1

\* C17: per-article failures never make the run fail: once configuration
\* and identifiers were loaded the command never ends with a non-zero
\* status, and when it ends it has run every chunk (every article has
\* settled and is counted in the summary) and its exit status is 0,
\* whatever the outcome of the article pipelines.
C17_ArticleFailuresNotFatal ==
    /\ bPc \in {"chunk", "done"} => bExit \in {Running, 0}
    /\ bPc = "done" =>
        /\ bExit = 0
        /\ \A p \in Positions : IsSettled(bPipe[p])
        /\ Len(bResults) + Len(bErrors) = Len(bIds)

\* a run of two chunks in which every article failed ended with status 0
C17_Witness ==
    /\ bPc = "done"
    /\ bExit = 0
    /\ bChunks >= 2
    /\ Len(bErrors) = Len(bIds)
    /\ \A p \in Positions : bPipe[p].stage = "rejected"

\* the rows of the file that belong to the article at position p
RowsOf(p) == {j \in 1..Len(bFile) : bFile[j] = [t |-> "row", pos |-> p]}

AppendSucceeded(p) == bPipe[p].csv = "appended"

\* C18: every successful article appends its row with one append call that
\* holds the whole line and its newline, so under every interleaving of
\* the completions of a chunk the summary file is the header line followed
\* by whole rows, one per article whose append succeeded, and no partial or
\* interleaved line.
C18_WholeRowsOnly ==
    bPc \in {"chunk", "done"} =>
        /\ Len(bFile) >= 2 /\ bFile[1].t = "header" /\ bFile[2].t = "newline"
        /\ Len(bFile) % 2 = 0
        /\ \A j \in 3..Len(bFile) :
            IF j % 2 = 1 THEN bFile[j].t = "row"
            ELSE bFile[j] = [t |-> "newline", pos |-> bFile[j - 1].pos]
        /\ \A p \in Positions :
            Cardinality(RowsOf(p)) = IF AppendSucceeded(p) THEN 1 ELSE 0

\* two articles of one chunk were in their append at the same time and both
\* rows are in the file, the one of the later position first
C18_Witness ==
    /\ bPc = "done"
    /\ \E p, q \in Positions :
        /\ p < q
        /\ bPipe[p].chunk = bPipe[q].chunk
        /\ AppendSucceeded(p) /\ AppendSucceeded(q)
        /\ \E j \in RowsOf(q), k \in RowsOf(p) : j < k

\* save() was called for the article at position p
SaveStarted(p) == bPipe[p].stage = "save" \/ bPipe[p].completed = Len(Stages)

\* C19: no two article pipelines of a run write the same report file: each
\* writes only inside reports/{its identifier value}, and these directories
\* are pairwise distinct for every identifier list the run accepts, so
\* concurrent siblings never overwrite each other's files.
C19_ReportDirectoriesDisjoint ==
    \A p, q \in DOMAIN bPipe :
        (p # q /\ SaveStarted(p) /\ SaveStarted(q)) => ReportDir(p) # ReportDir(q)

-----------------------------------------------------------------------------
(***************************************************************************)
(* Properties of ContentExtractor.extract, checked under SpecExtract       *)
(***************************************************************************)

\* C6: for every raw record and every extraction config, the record
\* extract() returns has all of the keys post_id, slug, url, title and
\* content.
C6_EssentialKeysPresent ==
    xPc = "returned" => \A f \in Essential : xOut[f] # Absent

\* the record carries the member with a usable value (not missing, 0 or "")
Has(v) == v \notin {Undef, JsNull, "", "0"}

ExposesSeoMetadata == xRaw.yoast_head_json # Undef
HasMetaMap == xRaw.meta # Undef
HasIdentifierTriad == Has(xRaw.id) /\ Has(xRaw.slug) /\ Has(xRaw.link)
HasContentText == xRaw.content \in {"{text}", "{rendered,text}"}

CmsPredicate == ExposesSeoMetadata \/ HasMetaMap \/ HasIdentifierTriad

ProjectionRan(rec) ==
    IF Threw(rec) THEN xPc = "threw"
    ELSE xPc = "returned" /\ xOut = applyConfigFilter(xConfig, rec)

\* C13: extract() treats a raw record as CMS shape if it has
\* yoast_head_json, or a meta map, or all of id, slug and link; otherwise as
\* Scrape shape if its content has a text member; otherwise as Generic
\* shape. The earliest predicate that holds decides which projection runs.
C13_EarliestShapeDecides ==
    xPc # "idle" =>
        /\ CmsPredicate => (xShape = "cms" /\ ProjectionRan(extractWordPressContent(xRaw)))
        /\ (~CmsPredicate /\ HasContentText)
             => (xShape = "scrape" /\ ProjectionRan(extractUniversalContent(xRaw)))
        /\ (~CmsPredicate /\ ~HasContentText)
             => (xShape = "generic" /\ ProjectionRan(extractGenericContent(xRaw)))

\* a record that satisfies the CMS and the Scrape predicate was projected
\* as CMS shape
C13_Witness ==
    /\ xPc = "returned"
    /\ HasMetaMap /\ HasContentText
    /\ xShape = "cms"
    /\ xOut = applyConfigFilter(xConfig, extractWordPressContent(xRaw))
    /\ xOut # applyConfigFilter(xConfig, extractUniversalContent(xRaw))

ProjectionDefines(f) == Projection(xRaw)[f] \notin {Undef, Absent}

\* C14: with an extraction config present, a non-essential field is in the
\* output of extract() if and only if the projection defines it and the
\* flattened config maps its name to true; a field the flattened config maps
\* to false or does not mention is absent.
C14_OptionalFieldsFollowFlatConfig ==
    (xPc = "returned" /\ xConfig.present) =>
        \A f \in Fields \ Essential :
            (xOut[f] # Absent) <=> (ProjectionDefines(f) /\ flatConfig(xConfig)[f] = "true")

-----------------------------------------------------------------------------
(***************************************************************************)
(* Properties of WordPressClient.getPost, checked under SpecWP             *)
(***************************************************************************)

ProbeKeepsFailing == wPc # "idle" /\ wId # "other" /\ ~wProbeOk

\* C7: while the probe keeps failing getPost runs the fetch at most
\* retryCount + 1 times, has waited the delay once before every re-run and
\* has sent no article request; it then rejects, after exactly
\* retryCount + 1 attempts, with an error that carries the message of the
\* probe's error.
C7_ProbeFailureRetries ==
    ProbeKeepsFailing =>
        /\ wAttempts <= wRetry0 + 1
        /\ wWaits = wAttempts - 1
        /\ wArticle = 0
        /\ wPc = "rejected" =>
            /\ wAttempts = wRetry0 + 1
            /\ wWaits = wRetry0
            /\ Wraps(wErr, <<"WordPress API connection test failed", wProbeErr>>)

\* getPost was given the largest retryCount and rejected after every probe
\* of every attempt failed
C7_Witness ==
    /\ wPc = "rejected"
    /\ ProbeKeepsFailing
    /\ wRetry0 = MaxRetry
    /\ wAttempts = MaxRetry + 1
    /\ wProbes = (MaxRetry + 1) * (TestConnectionRetries + 1)

\* the kind of error a message of getPost stands for
ErrorKind(msg) ==
    IF Head(msg) = "Post not found" THEN "NotFound"
    ELSE IF Head(msg) = "WordPress API Gateway error (502)" THEN "Gateway"
    ELSE IF Head(msg) \in {"Cannot connect to WordPress site", "WordPress site not found"}
    THEN "Connectivity"
    ELSE "Api"

\* the kind of error the cause calls for
KindForCause(idType, reply) ==
    IF reply.net = "http" /\ reply.status = 404 THEN "NotFound"
    ELSE IF reply.net = "2xx" /\ idType = "slug" /\ reply.data = "emptyArray" THEN "NotFound"
    ELSE IF reply.net = "http" /\ reply.status >= 500 /\ reply.status <= 599 THEN "Gateway"
    ELSE IF reply.net \in {"ENOTFOUND", "ECONNREFUSED"} THEN "Connectivity"
    ELSE "Api"

\* C8: when the article request fails, getPost rejects with the kind of
\* error its cause calls for: not-found for 404 and for an empty slug
\* collection, gateway for every 5xx, connectivity for ENOTFOUND and
\* ECONNREFUSED, the generic API error for every other status.
C8_ErrorKindByCause ==
    (wPc = "rejected" /\ wArticle > 0) => ErrorKind(wErr) = KindForCause(wId, wReply)

-----------------------------------------------------------------------------
(***************************************************************************)
(* Properties of the JSON repair, checked under SpecRepair                 *)
(***************************************************************************)

\* whitespace or nothing
BlankSeparators == {<<>>, <<" ">>, <<"\n">>}

Commas(n) == [i \in 1..n |-> <<",">>]

\* what JSON.parse makes of the same array written with its commas
WithCommas == JSONparse(ArrayText(rItems, Commas(Len(rSeps))))

MissingCommas ==
    /\ rPc # "idle"
    /\ rKind = "array"
    /\ Len(rItems) >= 2
    /\ \A i \in 1..Len(rSeps) : rSeps[i] \in BlankSeparators

\* C11: when the string literals of an array stand next to each other with
\* only whitespace or nothing between them, the repair inserts one comma
\* between them and the array parses to the same strings in the same order.
C11_MissingCommaRepaired ==
    MissingCommas => (rPc = "parsed" /\ rValue.val = WithCommas.val)

\* C12: the repair changes characters only outside string literals: when
\* the JSON object of the model text is well-formed already, the parsed
\* evaluation holds the same string values as parsing the object directly.
C12_StringsUntouched ==
    (rPc # "idle" /\ JSONparse(rText).ok)
        => (rPc = "parsed" /\ rValue.val = JSONparse(rText).val)

-----------------------------------------------------------------------------
(***************************************************************************)
(* Properties of buildRobotsDirective, checked under SpecRobots            *)
(***************************************************************************)

InOutput(v) == \E j \in 1..Len(dOut) : dOut[j] = v

\* the structured block when it has a value for d, the flat meta key
\* otherwise
Forbidden(d) ==
    IF dYoast.robots[d] # Undef THEN dYoast.robots[d] = Forbidding[d]
    ELSE dMeta.no[d] = "1"

\* C20: for each of index, follow, archive and snippet the directive is
\* decided by the value of yoast_head_json.robots when it has one and by
\* the flat meta key only when it has none, each sub-directive on its own.
C20_StructuredBeforeMeta ==
    (dPc = "returned" /\ (dMeta.present \/ dYoast.present)) =>
        \A d \in SubDirectiveSet :
            /\ InOutput(Forbidding[d]) <=> Forbidden(d)
            /\ d \in {"index", "follow"} => (InOutput(d) <=> ~Forbidden(d))

-----------------------------------------------------------------------------
(***************************************************************************)
(* Properties of the SEO and social fields, checked under SpecSeo          *)
(***************************************************************************)

NonEmpty(v) == v \notin {Undef, JsNull, ""}

\* the structured value when it is non-empty, otherwise the flat meta
\* key's value, otherwise empty
PreferStructured(f) ==
    IF NonEmpty(sYoast.members[KeyOf[f]]) THEN sYoast.members[KeyOf[f]]
    ELSE IF NonEmpty(sMeta.members[KeyOf[f]]) THEN sMeta.members[KeyOf[f]]
    ELSE ""

\* C21: every SEO/social field of the CMS projection (meta description, SEO
\* title, canonical URL, focus keyword, primary category, Open Graph and
\* Twitter title, description and image) has the structured block's value
\* when that is non-empty, otherwise the flat meta key's value, otherwise an
\* empty value, each field on its own, also for a record that lacks one or
\* both sources.
C21_StructuredThenFlatPerField ==
    sPc = "returned" => \A f \in SeoFields : sOut[f] = PreferStructured(f)

-----------------------------------------------------------------------------
(***************************************************************************)
(* Properties of the report files, checked under SpecBatch                 *)
(***************************************************************************)

\* README lines 216-223: the files of an article's report directory
ReportFileNames == {"seo-analysis-report.md", "executive-summary.md",
                    "content-creator-guide.md", "metadata.json", "raw-evaluation.json"}

FileNames(p) == {bPipe[p].files[j].name : j \in 1..Len(bPipe[p].files)}

\* C22: when the success record of an article is produced, its directory
\* reports/{identifier}/ contains all five files seo-analysis-report.md,
\* executive-summary.md, content-creator-guide.md, metadata.json and
\* raw-evaluation.json.
C22_FiveFilesPerSuccess ==
    \A p \in DOMAIN bPipe :
        bPipe[p].stage = "fulfilled" => ReportFileNames \subseteq FileNames(p)

\* what the file called `name` in the directory of the article at p holds
HeldBy(p, name) ==
    {bPipe[p].files[j].holds : j \in {i \in 1..Len(bPipe[p].files) : bPipe[p].files[i].name = name}}

\* C25: in an article's report directory raw-evaluation.json holds the raw
\* AI evaluation and metadata.json holds the report's metadata.
C25_RawEvaluationHoldsEvaluation ==
    \A p \in DOMAIN bPipe :
        /\ HeldBy(p, "raw-evaluation.json") \subseteq {"evaluation"}
        /\ HeldBy(p, "metadata.json") \subseteq {"report.metadata"}

-----------------------------------------------------------------------------
(***************************************************************************)
(* Properties of loadSlugsFromFile, checked under SpecSlugs                *)
(***************************************************************************)

\* the positions of the newlines of the file, with a sentinel at each end
Breaks == {0, Len(fContent) + 1} \cup {k \in 1..Len(fContent) : fContent[k] = "\n"}

\* the lines of the file: what stands between two neighbouring breaks
LineStarts == Breaks \ {Len(fContent) + 1}

LineFrom(b) ==
    LET e == CHOOSE k \in Breaks : k > b /\ \A j \in Breaks : j > b => k <= j
    IN  SubSeq(fContent, b + 1, e - 1)

\* the lines that are non-empty after trimming and do not begin with '#'
SlugLines == {b \in LineStarts : Trim(LineFrom(b)) # <<>> /\ Head(Trim(LineFrom(b))) # "#"}

\* the j-th of them in file order
NthSlugLine(j) == CHOOSE b \in SlugLines : Cardinality({c \in SlugLines : c <= b}) = j

\* C23: loadSlugsFromFile returns, in file order, exactly one slug-type
\* identifier for each line that is non-empty after trimming and does not
\* begin with '#'; blank lines and comment lines yield no identifier.
C23_OneSlugPerLine ==
    fPc = "returned" =>
        /\ Len(fOut) = Cardinality(SlugLines)
        /\ \A j \in 1..Len(fOut) :
            fOut[j] = [type |-> "slug", value |-> Trim(LineFrom(NthSlugLine(j)))]

\* a file with two slugs and a comment line between them was loaded
C23_Witness ==
    /\ fPc = "returned"
    /\ Len(fOut) = 2
    /\ \E b \in LineStarts \ SlugLines :
        /\ Trim(LineFrom(b)) # <<>>
        /\ NthSlugLine(1) < b
        /\ b < NthSlugLine(2)

-----------------------------------------------------------------------------
(***************************************************************************)
(* Properties of the summary, checked under SpecBatch                      *)
(***************************************************************************)

\* the successful articles whose evaluation recommends "Optimize", in the
\* order of their success records
ToOptimize ==
    SelectSeq([j \in 1..Len(bResults) |-> bResults[j].pos],
              LAMBDA p : bPipe[p].recommendation = "Optimize")

\* C24: with k successful articles whose evaluation has
\* optimization_recommendation "Optimize", the "Needs Optimization" list of
\* the summary shows the first min(3, k) of them, and "All posts are
\* performing well" appears only when k = 0.
C24_NeedsOptimizationListed ==
    (bPc = "done" /\ Len(bResults) > 0) =>
        IF Len(ToOptimize) = 0
        THEN needsOptimization(bResults) = <<AllPerformingWell>>
        ELSE /\ Len(needsOptimization(bResults)) =
                    (IF Len(ToOptimize) < 3 THEN Len(ToOptimize) ELSE 3)
             /\ \A j \in 1..Len(needsOptimization(bResults)) :
                    needsOptimization(bResults)[j] =
                        <<j, bIds[ToOptimize[j]], bPipe[ToOptimize[j]].score>>

-----------------------------------------------------------------------------
(***************************************************************************)
(* Range of the returned scores, checked under SpecEval                    *)
(***************************************************************************)

InRange(v) == v.tag = "number" /\ v.n \in 0..100

\* C26: in every evaluation that evaluate() returns, the six criterion
\* scores and overall_score lie in [0, 100], whatever the response
\* contained.
C26_ScoresWithinRange ==
    (gPc = "returned" /\ gReply.body = "object" /\ AllScoresNumeric(gReply.obj.crit)) =>
        /\ \A k \in CriteriaSet : InRange(gEval.crit[k])
        /\ InRange(gEval.overall_score)

-----------------------------------------------------------------------------
(***************************************************************************)
(* Termination of the batch loop                                           *)
(***************************************************************************)

\* under SpecBatchFair: a run that entered the loop prints the summary
BatchLoopEnds == (bPc = "chunk") ~> (bPc = "done")

\* C27: for every non-empty identifier list and every integer --batch-size,
\* zero and negative values included, provided each pipeline settles, the
\* batch loop ends after finitely many chunks and the summary is printed.
\* A loop that ends takes at least one identifier with every chunk, so it
\* never starts more chunks than there are identifiers (SpecBatch).
C27_ChunksBoundedByIdentifiers == bPc \in {"chunk", "done"} => bChunks <= Len(bIds)

-----------------------------------------------------------------------------
(***************************************************************************)
(* Probe requests of one getPost call, checked under SpecWP                *)
(***************************************************************************)

\* C28: while the probe keeps failing, one getPost call with retry ceiling
\* r sends at most r + 1 probe requests in total.
C28_ProbeRequestsBounded == ProbeKeepsFailing => wProbes <= wRetry0 + 1

-----------------------------------------------------------------------------
(***************************************************************************)
(* Records of the scraper, checked under SpecExtract                       *)
(***************************************************************************)

\* C29: every record that scrapeUrl returns is classified as Scrape shape
\* when it is passed to extract().
C29_ScrapedRecordsAreScrapeShape ==
    (xPc # "idle" /\ \E url \in ScrapedUrls : xRaw = scrapeUrl(url)) => xShape = "scrape"

-----------------------------------------------------------------------------
(***************************************************************************)
(* Properties of ErrorLogger.logError, checked under SpecLogger            *)
(***************************************************************************)

\* the calls made so far
CallsMade == {c \in Loggers : lCalls[c].pc # "idle"}

\* every call made has returned, and no file operation rejected
AllCompleted ==
    /\ CallsMade # {}
    /\ \A c \in CallsMade : lCalls[c].pc = "done" /\ lCalls[c].caught # "io"

\* C30: after any number of logError calls, overlapping ones included,
\* have all completed, error_log.json holds the entries it held before and
\* exactly one entry per call: none is lost or overwritten by the
\* read-modify-write of another call.
C30_NoEntryLost ==
    AllCompleted =>
        /\ Len(lFile) = 1 + Cardinality(CallsMade)
        /\ lFile[1] = 0
        /\ \A c \in CallsMade : \E j \in 1..Len(lFile) : lFile[j] = c

====
